---- MODULE Spec2Model ----
(***************************************************************************)
(* PyTrx camera geometry: calibration normalisation (CamCalib), camera     *)
(* environment construction (CamEnv), rotation matrix (getR) and forward   *)
(* projection (project), modelled from src/CamEnv.py and src/Images.py.    *)
(*                                                                         *)
(* Numbers are numpy float64 values.  They are modelled as exact fractions *)
(* <<n, d>> in lowest terms with d > 0, extended with the three IEEE       *)
(* special values Inf = <<1,0>>, -Inf = <<-1,0>> and NaN = <<0,0>>.        *)
(* Rounding and signed zeros are not modelled; angles are taken where sine *)
(* and cosine are exact (quarter turns and one 3-4-5 angle).               *)
(***************************************************************************)
EXTENDS Integers, Sequences, FiniteSets, TLC

VARIABLES
    camera,     \* arguments of getR/project that describe the camera
    xyz,        \* the batch of world points handed to project
    Rret,       \* value returned by getR, <<>> before the call
    pret,       \* value returned by project, NoResult before the call
    arg,        \* the constructor call: class and arguments
    pc,         \* "new", then "ok" (constructor returned) or "raised"
    exc,        \* the exception the constructor raised, "" if none
    self,       \* the attributes of the CamCalib / CamEnv object
    cv2ret,     \* value returned by the last getCamMatrixCV2 call
    cv2calls,   \* number of getCamMatrixCV2 calls made
    terrain,    \* the raster load_DEM gives: its X, Y and Z grids
    viewshed,   \* the mask voxelviewshed gives for the terrain and the camera
    built,      \* the list setInvProjVars returned last, NoIndex before
    query,      \* the pixel coordinates handed to invproject
    answer,     \* what invproject did: the rows it returned or that it raised
    log,        \* what has run on the environment: calls, loads, builds
    coeffs,     \* value returned by getDistortCoeffsCV2, <<>> before the call
    areaObj,    \* the attributes of the Area object
    images,     \* per image of the Area: its contours and the range clicked
    areas,      \* what calcAutoAreas did: per image the range and polygons
    ogrpts,     \* the points handed to getOGRArea
    ring,       \* what getOGRArea did: the points of the ring or that it raised
    imageList,  \* the argument ImageSequence is constructed with
    seq         \* the attributes of the ImageSequence object

projvars == <<camera, xyz, Rret, pret>>

envvars == <<arg, pc, exc, self, cv2ret, cv2calls, log>>

idxvars == <<terrain, viewshed, built, query, answer>>

toolvars == <<coeffs, areaObj, images, areas, ogrpts, ring, imageList, seq>>

vars == <<camera, xyz, Rret, pret, arg, pc, exc, self, cv2ret, cv2calls,
          terrain, viewshed, built, query, answer, log,
          coeffs, areaObj, images, areas, ogrpts, ring, imageList, seq>>

(***************************************************************************)
(* Bounds                                                                  *)
(***************************************************************************)
MaxCoord == 1      \* world coordinates of the generic points: -MaxCoord..MaxCoord
MaxPts == 2        \* largest batch of points handed to project
MaxFiles == 2      \* most calibration files in a list argument
MaxExtra == 1      \* most distortion coefficients beyond the fixed lengths
MaxCalls == 2      \* most getCamMatrixCV2 calls on one object

(***************************************************************************)
(* float64 arithmetic                                                      *)
(***************************************************************************)
NaN == <<0, 0>>
Inf == <<1, 0>>
NegInf == <<-1, 0>>

Abs(x) == IF x < 0 THEN -x ELSE x

Sgn(x) == IF x < 0 THEN -1 ELSE IF x > 0 THEN 1 ELSE 0

RECURSIVE GCD(_, _)
GCD(a, b) == IF b = 0 THEN a ELSE GCD(b, a % b)

\* the float with value n/d; n/0 is an infinity or NaN
Frac(n, d) ==
    IF d = 0 THEN <<Sgn(n), 0>>
    ELSE LET g == GCD(Abs(n), Abs(d))
             s == Sgn(d)
         IN  <<(s * n) \div g, (s * d) \div g>>

F(n) == <<n, 1>>

IsNaN(a) == a = NaN

IsFinite(a) == a[2] # 0

RNeg(a) == <<-a[1], a[2]>>

RAdd(a, b) ==
    IF IsNaN(a) \/ IsNaN(b) THEN NaN
    ELSE IF ~IsFinite(a) /\ ~IsFinite(b) THEN (IF a = b THEN a ELSE NaN)
    ELSE IF ~IsFinite(a) THEN a
    ELSE IF ~IsFinite(b) THEN b
    ELSE Frac(a[1] * b[2] + b[1] * a[2], a[2] * b[2])

RSub(a, b) == RAdd(a, RNeg(b))

RMul(a, b) ==
    IF IsNaN(a) \/ IsNaN(b) THEN NaN
    ELSE IF ~IsFinite(a) \/ ~IsFinite(b)
         THEN <<Sgn(a[1]) * Sgn(b[1]), 0>>
    ELSE Frac(a[1] * b[1], a[2] * b[2])

RDiv(a, b) ==
    IF IsNaN(a) \/ IsNaN(b) THEN NaN
    ELSE IF ~IsFinite(b) THEN (IF IsFinite(a) THEN F(0) ELSE NaN)
    ELSE IF ~IsFinite(a) THEN <<Sgn(a[1]) * (IF b[1] < 0 THEN -1 ELSE 1), 0>>
    ELSE Frac(a[1] * b[2], a[2] * b[1])

\* comparisons; every comparison with NaN is false
RLe(a, b) ==
    /\ ~IsNaN(a)
    /\ ~IsNaN(b)
    /\ IF IsFinite(a) /\ IsFinite(b) THEN a[1] * b[2] <= b[1] * a[2]
       ELSE IF ~IsFinite(a) /\ ~IsFinite(b) THEN a[1] <= b[1]
       ELSE IF ~IsFinite(a) THEN a[1] < 0
       ELSE b[1] > 0

RLt(a, b) == RLe(a, b) /\ a # b

RGe(a, b) == RLe(b, a)

RGt(a, b) == RLt(b, a)

(***************************************************************************)
(* Angles: an angle is an index into a table of exact cosines and sines.   *)
(* 0..3 are the quarter turns 0, pi/2, pi, 3pi/2; 4 is atan(3/4).          *)
(***************************************************************************)
Angles == 0..4

Cos(a) ==
    CASE a = 0 -> F(1)
      [] a = 1 -> F(0)
      [] a = 2 -> F(-1)
      [] a = 3 -> F(0)
      [] a = 4 -> Frac(4, 5)

Sin(a) ==
    CASE a = 0 -> F(0)
      [] a = 1 -> F(1)
      [] a = 2 -> F(0)
      [] a = 3 -> F(-1)
      [] a = 4 -> Frac(3, 5)

(***************************************************************************)
(* Matrices are tuples of rows; code index [i,j] is model index [i+1][j+1] *)
(***************************************************************************)
Transpose(m) == [j \in 1..Len(m[1]) |-> [i \in 1..Len(m) |-> m[i][j]]]

\* the sequence as an explicit tuple: the same value, held element by
\* element instead of by the rule that gives the elements
Array(s) == s \o <<>>

\* np.dot of an N x 3 array with a 3 x 3 array
Dot(a, m) ==
    Array([i \in 1..Len(a) |->
        Array([j \in 1..3 |->
            RAdd(RAdd(RMul(a[i][1], m[1][j]), RMul(a[i][2], m[2][j])),
                 RMul(a[i][3], m[3][j]))])])

\* getR with every row negated, not only rows 0 and 1
getR_NegateAll(camDirection) ==
    LET C == [i \in 1..3 |-> Cos(camDirection[i])]
        S == [i \in 1..3 |-> Sin(camDirection[i])]
        p == << RSub(RMul(RMul(S[3], S[2]), C[1]), RMul(C[3], S[1])),
                RAdd(RMul(RMul(S[3], S[2]), S[1]), RMul(C[3], C[1])),
                RMul(S[3], C[2]) >>
        q == << RAdd(RMul(RMul(C[3], S[2]), C[1]), RMul(S[3], S[1])),
                RSub(RMul(RMul(C[3], S[2]), S[1]), RMul(S[3], C[1])),
                RMul(C[3], C[2]) >>
        r == << RMul(C[2], C[1]), RMul(C[2], S[1]), RNeg(S[2]) >>
        value == <<p, q, r>>
    IN  [i \in 1..3 |-> [j \in 1..3 |-> RNeg(value[i][j])]]

\* getR with the sign of the second term of p[0] slipped
getR_SignSlip(camDirection) ==
    LET C == [i \in 1..3 |-> Cos(camDirection[i])]
        S == [i \in 1..3 |-> Sin(camDirection[i])]
        p == << RAdd(RMul(RMul(S[3], S[2]), C[1]), RMul(C[3], S[1])),
                RAdd(RMul(RMul(S[3], S[2]), S[1]), RMul(C[3], C[1])),
                RMul(S[3], C[2]) >>
        q == << RAdd(RMul(RMul(C[3], S[2]), C[1]), RMul(S[3], S[1])),
                RSub(RMul(RMul(C[3], S[2]), S[1]), RMul(S[3], C[1])),
                RMul(C[3], C[2]) >>
        r == << RMul(C[2], C[1]), RMul(C[2], S[1]), RNeg(S[2]) >>
        value == <<p, q, r>>
    IN  [i \in 1..3 |->
            IF i <= 2 THEN [j \in 1..3 |-> RNeg(value[i][j])] ELSE value[i]]

\* getR with yaw and roll exchanged (C and S indexed the wrong way round)
getR_YawRollSwapped(camDirection) ==
    LET C == [i \in 1..3 |-> Cos(camDirection[4 - i])]
        S == [i \in 1..3 |-> Sin(camDirection[4 - i])]
        p == << RSub(RMul(RMul(S[3], S[2]), C[1]), RMul(C[3], S[1])),
                RAdd(RMul(RMul(S[3], S[2]), S[1]), RMul(C[3], C[1])),
                RMul(S[3], C[2]) >>
        q == << RAdd(RMul(RMul(C[3], S[2]), C[1]), RMul(S[3], S[1])),
                RSub(RMul(RMul(C[3], S[2]), S[1]), RMul(S[3], C[1])),
                RMul(C[3], C[2]) >>
        r == << RMul(C[2], C[1]), RMul(C[2], S[1]), RNeg(S[2]) >>
        value == <<p, q, r>>
    IN  [i \in 1..3 |->
            IF i <= 2 THEN [j \in 1..3 |-> RNeg(value[i][j])] ELSE value[i]]

\* getR: rotation matrix from (yaw, pitch, roll)
getR(camDirection) ==
    LET C == [i \in 1..3 |-> Cos(camDirection[i])]
        S == [i \in 1..3 |-> Sin(camDirection[i])]
        p == << RSub(RMul(RMul(S[3], S[2]), C[1]), RMul(C[3], S[1])),
                RAdd(RMul(RMul(S[3], S[2]), S[1]), RMul(C[3], C[1])),
                RMul(S[3], C[2]) >>
        q == << RAdd(RMul(RMul(C[3], S[2]), C[1]), RMul(S[3], S[1])),
                RSub(RMul(RMul(C[3], S[2]), S[1]), RMul(S[3], C[1])),
                RMul(C[3], C[2]) >>
        r == << RMul(C[2], C[1]), RMul(C[2], S[1]), RNeg(S[2]) >>
        value == <<p, q, r>>
    IN  [i \in 1..3 |->
            IF i <= 2 THEN [j \in 1..3 |-> RNeg(value[i][j])] ELSE value[i]]

(***************************************************************************)
(* Reference image size                                                    *)
(***************************************************************************)
\* CamImage.getImageSize / getExif: [ExifImageHeight, ExifImageWidth]
getImageSize(img) == <<img.ExifImageHeight, img.ExifImageWidth>>

\* the size project reads: ndarray.shape or CamImage.getImageSize()
ImageShape(refimg) ==
    IF refimg.kind = "ndarray" THEN <<refimg.ExifImageHeight, refimg.ExifImageWidth>>
    ELSE getImageSize(refimg)

(***************************************************************************)
(* project                                                                 *)
(***************************************************************************)
\* CamCoords multiplying by the rotation matrix itself, not its transpose
CamCoords_NoTranspose(camloc, camdirection, pts) ==
    LET shifted == [i \in 1..Len(pts) |->
                       [j \in 1..3 |-> RSub(pts[i][j], camloc[j])]]
    IN  Dot(shifted, getR(camdirection))

\* xyz - camloc, then rotation by the transposed rotation matrix
CamCoords(camloc, camdirection, pts) ==
    LET shifted == [i \in 1..Len(pts) |->
                       [j \in 1..3 |-> RSub(pts[i][j], camloc[j])]]
        Rprime == Transpose(getR(camdirection))
    IN  Dot(shifted, Rprime)

\* xy = xyz[:,0:2] / xyz[:,2:3]
PerspectiveDivide(c) ==
    [i \in 1..Len(c) |-> <<RDiv(c[i][1], c[i][3]), RDiv(c[i][2], c[i][3])>>]

\* the lens distortion formula of the branch guarded by "if False"
Distort(xy, radial, tangen) ==
    [i \in 1..Len(xy) |->
        LET x == xy[i][1]
            y == xy[i][2]
            r2raw == RAdd(RMul(x, x), RMul(y, y))
            r2 == IF RGt(r2raw, F(4)) THEN F(4) ELSE r2raw
            r4 == RMul(r2, r2)
            r6 == RMul(r4, r2)
            num == RAdd(RAdd(RAdd(F(1), RMul(radial[1], r2)), RMul(radial[2], r4)),
                        RMul(radial[3], r6))
            den == RAdd(RAdd(RAdd(F(1), RMul(radial[4], r2)), RMul(radial[5], r4)),
                        RMul(radial[6], r6))
            a == IF \E k \in 3..6 : radial[k] # F(0) THEN RDiv(num, den) ELSE num
            xty == RMul(x, y)
            t1 == RMul(RMul(F(2), tangen[1]), xty)
        IN  << RAdd(RAdd(RMul(a, x), t1),
                    RMul(tangen[2], RAdd(r2, RMul(F(2), RMul(x, x))))),
               RAdd(RAdd(RMul(a, y), t1),
                    RMul(tangen[2], RAdd(r2, RMul(F(2), RMul(y, y))))) >>]

\* uv[i] = foclen * xy[i] + camcen
Pixel(foclen, camcen, xy) ==
    [i \in 1..Len(xy) |->
        << RAdd(RMul(foclen[1], xy[i][1]), camcen[1]),
           RAdd(RMul(foclen[2], xy[i][2]), camcen[2]) >>]

\* MaskBehind testing xyz[i,2] < 0, which lets depth 0 through
MaskBehind_Strict(c, uv) ==
    [i \in 1..Len(uv) |-> IF RLt(c[i][3], F(0)) THEN <<NaN, NaN>> ELSE uv[i]]

\* points with xyz[i,2] <= 0 get the pixel (nan, nan)
MaskBehind(c, uv) ==
    [i \in 1..Len(uv) |-> IF RLe(c[i][3], F(0)) THEN <<NaN, NaN>> ELSE uv[i]]

\* InFrame comparing u against the rows and v against the columns
InFrame_Swapped(depth, uv, ims) ==
    [i \in 1..Len(uv) |->
        /\ RGt(depth[i], F(0))
        /\ RGe(uv[i][1], F(1))
        /\ RGe(uv[i][2], F(1))
        /\ RLe(uv[i][1], F(ims[1]))
        /\ RLe(uv[i][2], F(ims[2]))]

\* inframe[i], with ims = (rows, columns) of the reference image
InFrame(depth, uv, ims) ==
    [i \in 1..Len(uv) |->
        /\ RGt(depth[i], F(0))
        /\ RGe(uv[i][1], F(1))
        /\ RGe(uv[i][2], F(1))
        /\ RLe(uv[i][1], F(ims[2]))
        /\ RLe(uv[i][2], F(ims[1]))]

\* the three arrays project returns
Framed(uv, depth, ims) ==
    [uv |-> uv, depth |-> depth, inframe |-> Array(InFrame(depth, uv, ims))]

\* pixels, depths and in-frame flags of the camera coordinates c, with the
\* distortion branch taken
PixelsOf_Distorting(c, radial, tangen, foclen, camcen, ims) ==
    LET xy == Distort(PerspectiveDivide(c), radial, tangen)
    IN  Framed(Array(MaskBehind(c, Pixel(foclen, camcen, xy))),
               [i \in 1..Len(c) |-> c[i][3]], ims)

\* pixels, depths and in-frame flags of the camera coordinates c: what
\* project does after the rotation
PixelsOf(c, radial, tangen, foclen, camcen, ims) ==
    LET xy0 == PerspectiveDivide(c)
        xy == IF FALSE THEN Distort(xy0, radial, tangen) ELSE xy0
    IN  Framed(Array(MaskBehind(c, Pixel(foclen, camcen, xy))),
               [i \in 1..Len(c) |-> c[i][3]], ims)

project(camloc, camdirection, radial, tangen, foclen, camcen, refimg, pts) ==
    PixelsOf(CamCoords(camloc, camdirection, pts), radial, tangen, foclen,
             camcen, ImageShape(refimg))

(***************************************************************************)
(* Inputs of the projection kernel                                         *)
(***************************************************************************)
Vec(x, y, z) == <<F(x), F(y), F(z)>>

Coords == (0 - MaxCoord)..MaxCoord

Points == {Vec(x, y, z) : x \in Coords, y \in Coords, z \in Coords}

\* the k-th point that accompanies a point in a longer batch
Companion(k) == Vec(k % 2, (k + 1) % 2, 2 - k)

\* a point alone, or followed by up to MaxPts - 1 companions
Batches ==
    {<<p>> \o [k \in 1..n |-> Companion(k)] : p \in Points, n \in 0..(MaxPts - 1)}

NoDistortion == [radial |-> [k \in 1..6 |-> F(0)], tangen |-> <<F(0), F(0)>>]

\* camera location and reference image of the generic cameras
Sites == {[camloc |-> Vec(0, 0, 0),
           refimg |-> [kind |-> "CamImage", ExifImageHeight |-> 3,
                       ExifImageWidth |-> 4]],
          [camloc |-> Vec(1, 0, -1),
           refimg |-> [kind |-> "ndarray", ExifImageHeight |-> 5,
                       ExifImageWidth |-> 2]]}

\* orientations project is called with
ProjDirections == {0, 1, 2, 4} \X {0, 1, 3, 4} \X {0, 2, 4}

GenericCameras ==
    {[camloc |-> s.camloc, camdirection |-> d, distort |-> NoDistortion,
      foclen |-> <<F(2), F(3)>>, camcen |-> <<F(2), F(2)>>,
      refimg |-> s.refimg] : s \in Sites, d \in ProjDirections}

\* the camera of the worked example: 100 above the origin, f = 1000, c = 500
ScenarioCameras ==
    [camloc : {Vec(0, 0, 100)},
     camdirection : Angles \X Angles \X Angles,
     distort : {NoDistortion},
     foclen : {<<F(1000), F(1000)>>},
     camcen : {<<F(500), F(500)>>},
     refimg : {[kind |-> "CamImage", ExifImageHeight |-> 1000,
                ExifImageWidth |-> 1000]}]

ScenarioPoint == Vec(10, 10, 0)

\* the batches project is called with on a given camera
BatchesFor(cam) ==
    IF cam \in ScenarioCameras THEN {<<ScenarioPoint>>} ELSE Batches

\* no camera arguments: nothing of the projection kernel is called
NoCamera ==
    [camloc |-> <<>>, camdirection |-> <<>>,
     distort |-> [radial |-> <<>>, tangen |-> <<>>],
     foclen |-> <<>>, camcen |-> <<>>,
     refimg |-> [kind |-> "", ExifImageHeight |-> 0, ExifImageWidth |-> 0]]

NoResult == [uv |-> <<>>, depth |-> <<>>, inframe |-> <<>>]

(***************************************************************************)
(* Terrain and the inverse projection variables                            *)
(***************************************************************************)
GridCols == 2      \* columns of the terrain grids, which have one or two rows

\* an ExplicitRaster: the grids getData(0), getData(1), getData(2) cell by
\* cell in row-major order, and the factor it has been densified by
Raster(X, Y, Z) == [X |-> X, Y |-> Y, Z |-> Z, factor |-> 1]

NoTerrain == [X |-> <<>>, Y |-> <<>>, Z |-> <<>>, factor |-> 0]

\* dem.densify(densefactor): the resampling itself is not looked into
densify(dem, densefactor) == [dem EXCEPT !.factor = @ * densefactor]

\* load_DEM(dempath): the raster stored under the path
load_DEM(dempath) == terrain

\* voxelviewshed(dem, camloc): one flag per cell of the raster
voxelviewshed(dem, camloc) == viewshed

constructDEM(dempath, densefactor) ==
    LET dem == load_DEM(dempath)
    IN  IF densefactor > 1 THEN densify(dem, densefactor) ELSE dem

\* a[mask] of numpy: the entries of a at which mask is true, in order
RECURSIVE TakeFrom(_, _, _)
TakeFrom(a, mask, i) ==
    IF i > Len(mask) THEN <<>>
    ELSE (IF mask[i] THEN <<a[i]>> ELSE <<>>) \o TakeFrom(a, mask, i + 1)

Take(a, mask) == TakeFrom(a, mask, 1)

\* the list [X, Y, Z, uv0]; none marks the value None
NoIndex == [none |-> TRUE, X |-> <<>>, Y |-> <<>>, Z |-> <<>>, uv0 |-> <<>>]

\* a path and a factor in place of a raster: what isinstance(dem, list) tells
DemList(dempath, densefactor) ==
    [islist |-> TRUE, dempath |-> dempath, densefactor |-> densefactor,
     raster |-> NoTerrain]

DemRaster(r) ==
    [islist |-> FALSE, dempath |-> "", densefactor |-> 0, raster |-> r]

\* the cells of the raster d that the viewshed marks, as rows x, y, z
VisibleCells(d, camloc) ==
    Take([i \in 1..Len(d.X) |-> <<d.X[i], d.Y[i], d.Z[i]>>],
         voxelviewshed(d, camloc))

\* InFrameRows keeping every row, in frame or not
InFrameRows_KeepAll(XYZ, p) == [i \in 1..Len(XYZ) |-> p.uv[i] \o XYZ[i]]

\* the rows u, v, x, y, z of the cells whose in-frame flag is set
InFrameRows(XYZ, p) ==
    Take([i \in 1..Len(XYZ) |-> p.uv[i] \o XYZ[i]], p.inframe)

\* the columns of the rows taken apart: the list [X, Y, Z, uv0]
IndexColumns(rows) ==
    [none |-> FALSE,
     X |-> [k \in 1..Len(rows) |-> rows[k][3]],
     Y |-> [k \in 1..Len(rows) |-> rows[k][4]],
     Z |-> [k \in 1..Len(rows) |-> rows[k][5]],
     uv0 |-> [k \in 1..Len(rows) |-> <<rows[k][1], rows[k][2]>>]]

\* the visible cells XYZ projected, the rows in frame kept
IndexOfCells(XYZ, camloc, camdir, radial, tangen, foclen, camcen, refimg) ==
    IndexColumns(InFrameRows(XYZ, project(camloc, camdir, radial, tangen,
                                          foclen, camcen, refimg, XYZ)))

\* setInvProjVars: the visible cells are projected, the rows in frame are
\* kept, and the columns are taken apart again
setInvProjVars(dem, camloc, camdir, radial, tangen, foclen, camcen, refimg) ==
    IndexOfCells(VisibleCells(IF dem.islist
                              THEN constructDEM(dem.dempath, dem.densefactor)
                              ELSE dem.raster,
                              camloc),
                 camloc, camdir, radial, tangen, foclen, camcen, refimg)

(***************************************************************************)
(* scipy.interpolate.griddata(points, values, xi, method='linear') and     *)
(* invproject                                                              *)
(***************************************************************************)
\* (b - a) x (c - a): twice the signed area of the triangle a, b, c
Cross(a, b, c) ==
    RSub(RMul(RSub(b[1], a[1]), RSub(c[2], a[2])),
         RMul(RSub(b[2], a[2]), RSub(c[1], a[1])))

Det3(m) ==
    RAdd(RSub(RMul(m[1][1], RSub(RMul(m[2][2], m[3][3]), RMul(m[2][3], m[3][2]))),
              RMul(m[1][2], RSub(RMul(m[2][1], m[3][3]), RMul(m[2][3], m[3][1])))),
         RMul(m[1][3], RSub(RMul(m[2][1], m[3][2]), RMul(m[2][2], m[3][1]))))

\* d lies strictly inside the circle through a, b and c
InCircle(a, b, c, d) ==
    LET Row(p) ==
            LET x == RSub(p[1], d[1])
                y == RSub(p[2], d[2])
            IN  <<x, y, RAdd(RMul(x, x), RMul(y, y))>>
    IN  RGt(RMul(Det3(<<Row(a), Row(b), Row(c)>>), Cross(a, b, c)), F(0))

\* no three of the points span a triangle: fewer than three points, or all
\* of them on one line
Collinear(points) ==
    \A i, j, k \in 1..Len(points) :
        Cross(points[i], points[j], points[k]) = F(0)

\* the simplices a Delaunay triangulation of the points can have: triangles
\* with area whose circumcircle has no point strictly inside
Triangles(points) ==
    {t \in (1..Len(points)) \X (1..Len(points)) \X (1..Len(points)) :
        /\ t[1] < t[2] /\ t[2] < t[3]
        /\ Cross(points[t[1]], points[t[2]], points[t[3]]) # F(0)
        /\ \A l \in 1..Len(points) :
               ~InCircle(points[t[1]], points[t[2]], points[t[3]], points[l])}

\* barycentric coordinates of q in the triangle t
Barycentric(points, t, q) ==
    LET a == points[t[1]]
        b == points[t[2]]
        c == points[t[3]]
        area == Cross(a, b, c)
    IN  <<RDiv(Cross(q, b, c), area), RDiv(Cross(a, q, c), area),
          RDiv(Cross(a, b, q), area)>>

\* the simplices find_simplex can give for q; none when q is outside the
\* convex hull (or NaN), which is the empty tuple here
FindSimplex(T, points, q) ==
    LET holds == {t \in T :
                    LET l == Barycentric(points, t, q)
                    IN  \A k \in 1..3 : RGe(l[k], F(0))}
    IN  IF holds = {} THEN {<<>>} ELSE holds

\* every way of giving each query one of its simplices
RECURSIVE SimplexChoices(_, _, _, _)
SimplexChoices(T, points, xi, n) ==
    IF n > Len(xi) THEN {<<>>}
    ELSE {<<t>> \o rest : t \in FindSimplex(T, points, xi[n]),
                         rest \in SimplexChoices(T, points, xi, n + 1)}

\* linear interpolation of the values over the simplex of each query; NaN
\* is the fill value
griddata(points, values, xi, simplex) ==
    [n \in 1..Len(xi) |->
        IF simplex[n] = <<>> THEN NaN
        ELSE LET t == simplex[n]
                 l == Barycentric(points, t, xi[n])
             IN  RAdd(RAdd(RMul(l[1], values[t[1]]), RMul(l[2], values[t[2]])),
                      RMul(l[3], values[t[3]]))]

\* invproject has not been called
NoAnswer == [raised |-> FALSE, xyz |-> <<>>]

\* invproject: subscripting None raises TypeError, Qhull raises when the
\* points span no triangle; otherwise the three channels are interpolated
\* over the simplex the triangulation has for each query and stacked
invproject(uv, invprojvars, simplex) ==
    IF invprojvars.none \/ Collinear(invprojvars.uv0)
    THEN [raised |-> TRUE, xyz |-> <<>>]
    ELSE LET xi == griddata(invprojvars.uv0, invprojvars.X, uv, simplex)
             yi == griddata(invprojvars.uv0, invprojvars.Y, uv, simplex)
             zi == griddata(invprojvars.uv0, invprojvars.Z, uv, simplex)
         IN  [raised |-> FALSE,
              xyz |-> [n \in 1..Len(uv) |-> <<xi[n], yi[n], zi[n]>>]]

(***************************************************************************)
(* Inputs of the inverse projection                                        *)
(***************************************************************************)
Heights == {"flat", "ridge", "peak"}

\* elevation of the cell in row r and column c
HeightAt(h, r, c) ==
    IF h = "flat" THEN 0
    ELSE IF h = "ridge" THEN 2 * (c % 2)
    ELSE IF r = 1 /\ c = 1 THEN 5 ELSE 0

\* a grid of unit spacing: x = 1..cols, y = 0..rows-1
Grid(rows, cols, h) ==
    Raster([n \in 1..(rows * cols) |-> F(((n - 1) % cols) + 1)],
           [n \in 1..(rows * cols) |-> F((n - 1) \div cols)],
           [n \in 1..(rows * cols) |->
               F(HeightAt(h, ((n - 1) \div cols) + 1, ((n - 1) % cols) + 1))])

Terrains == {Grid(r, GridCols, h) : r \in {1, 2}, h \in Heights}

\* masks over n cells: all but one cell visible, or only the first cells
Masks(n) ==
    {[i \in 1..n |-> i # k] : k \in 0..n}
    \cup {[i \in 1..n |-> i <= k] : k \in 0..(n - 1)}

SomeDistortion ==
    [radial |-> <<F(1), F(2), F(0), F(0), F(0), F(0)>>, tangen |-> <<F(1), F(3)>>]

Distortions == {NoDistortion, SomeDistortion}

\* cameras 4 above the origin of the grid, looking straight down
IndexCameras ==
    [camloc : {Vec(0, 0, 4)},
     camdirection : {<<2, 1, 0>>, <<0, 1, 0>>, <<4, 1, 0>>},
     distort : Distortions,
     foclen : {<<F(2), F(2)>>},
     camcen : {<<F(2), F(2)>>},
     refimg : {[kind |-> "CamImage", ExifImageHeight |-> 3, ExifImageWidth |-> 4],
               [kind |-> "ndarray", ExifImageHeight |-> 2, ExifImageWidth |-> 3]}]

\* no terrain, no index and no query: nothing of the inverse projection runs
IdleIndex ==
    /\ terrain = NoTerrain
    /\ viewshed = <<>>
    /\ built = NoIndex
    /\ query = <<>>
    /\ answer = NoAnswer

(***************************************************************************)
(* No Area object, no image sequence and no call of getDistortCoeffsCV2 or *)
(* getOGRArea yet                                                          *)
(***************************************************************************)
\* None, and the value v where the code may hold None
None == [none |-> TRUE, val |-> <<>>]

Some(v) == [none |-> FALSE, val |-> v]

NoAreaObj == [attrs |-> {}, colourrange |-> None, threshold |-> None]

NoAreas ==
    [raised |-> FALSE, exception |-> "", calls |-> <<>>, selected |-> <<>>,
     self |-> NoAreaObj, done |-> FALSE, colour |-> FALSE]

NoRing == [raised |-> FALSE, exception |-> "", points |-> <<>>, done |-> FALSE]

NoSeq ==
    [attrs |-> {}, imageList |-> <<>>, imageSet |-> <<>>, done |-> FALSE,
     exception |-> ""]

NoList == [type |-> "", items |-> <<>>, found |-> {}]

IdleTools ==
    /\ coeffs = <<>>
    /\ areaObj = NoAreaObj
    /\ images = <<>>
    /\ areas = NoAreas
    /\ ogrpts = <<>>
    /\ ring = NoRing
    /\ imageList = NoList
    /\ seq = NoSeq

MaxQueries == 2    \* most pixels in one invproject call

\* pixels inside the image of the grid, beside it, far from it, and NaN
FixedPixels ==
    {<<Frac(11, 4), Frac(9, 4)>>, <<F(1), F(1)>>, <<F(100), F(100)>>,
     <<NaN, NaN>>}

\* the k-th pixel that accompanies a pixel in a longer query
QueryCompanion(k) ==
    IF k % 2 = 1 THEN <<F(100), F(100)>> ELSE <<Frac(11, 4), Frac(9, 4)>>

\* the pixels the terrain cells project to
NodePixels ==
    LET uv == project(camera.camloc, camera.camdirection,
                      camera.distort.radial, camera.distort.tangen,
                      camera.foclen, camera.camcen, camera.refimg,
                      [i \in 1..Len(terrain.X) |->
                          <<terrain.X[i], terrain.Y[i], terrain.Z[i]>>]).uv
    IN  {uv[i] : i \in 1..Len(terrain.X)}

\* a pixel alone, or followed by up to MaxQueries - 1 companions
Queries ==
    {<<q>> \o [k \in 1..n |-> QueryCompanion(k)] :
        q \in FixedPixels \cup NodePixels, n \in 0..(MaxQueries - 1)}

\* the dem argument: the raster, or a path with a densification factor
DemArgs == {DemRaster(terrain), DemList("dem.tif", 1), DemList("dem.tif", 2)}

(***************************************************************************)
(* CamCalib: calibration descriptors and their normalisation               *)
(***************************************************************************)
TanLen == 2        \* tanDis = np.zeros(2)
RadLen == 6        \* radDis = np.zeros(6)

\* what readMatrixDistortion hands back: None, or [intrMat, tanDis, radDis]
NoneDesc == [none |-> TRUE, intr |-> <<>>, tan |-> <<>>, rad |-> <<>>]

Desc(m, t, r) == [none |-> FALSE, intr |-> m, tan |-> t, rad |-> r]

\* checkMatrix pads with ones instead of zeros
PadZeros_Ones(n, v) == [k \in 1..n |-> IF k <= Len(v) THEN v[k] ELSE F(1)]

\* out = np.zeros(n); out[:v.size] = v
PadZeros(n, v) == [k \in 1..n |-> IF k <= Len(v) THEN v[k] ELSE F(0)]

\* checkMatrix cutting over-long vectors to the fixed length
checkMatrix_Truncate(matrix) ==
    IF matrix.none THEN [raised |-> FALSE, val |-> NoneDesc]
    ELSE [raised |-> FALSE,
          val |-> Desc(matrix.intr, PadZeros(TanLen, matrix.tan),
                       PadZeros(RadLen, matrix.rad))]

\* checkMatrix: None stays None; the slice assignment raises ValueError when
\* the input vector is longer than the zero vector it is copied into
checkMatrix(matrix) ==
    IF matrix.none THEN [raised |-> FALSE, val |-> NoneDesc]
    ELSE IF Len(matrix.tan) > TanLen \/ Len(matrix.rad) > RadLen
         THEN [raised |-> TRUE, val |-> NoneDesc]
    ELSE [raised |-> FALSE,
          val |-> Desc(matrix.intr, PadZeros(TanLen, matrix.tan),
                       PadZeros(RadLen, matrix.rad))]

\* intrinsic matrix in the layout of the class docstring: cx, cy in the
\* bottom row, skew at (1,0)
RowLayout(fx, fy, sk, cx, cy) ==
    << <<F(fx), F(0), F(0)>>, <<F(sk), F(fy), F(0)>>, <<F(cx), F(cy), F(1)>> >>

\* intrinsic matrix in the OpenCV layout: cx, cy in the last column
CV2Layout(fx, fy, sk, cx, cy) == Transpose(RowLayout(fx, fy, sk, cx, cy))

IntrParams == {<<2, 3, 0, 5, 7>>, <<2, 3, 1, 5, 7>>, <<2, 3, 0, 0, 7>>}

IntrMats ==
    {RowLayout(q[1], q[2], q[3], q[4], q[5]) : q \in IntrParams}
    \cup {CV2Layout(q[1], q[2], q[3], q[4], q[5]) : q \in IntrParams}

\* the vector <<1, 2, ..., n>>
Ramp(n) == [k \in 1..n |-> F(k)]

TanInputs == {Ramp(n) : n \in 0..(TanLen + MaxExtra)} \cup {<<F(0), F(4)>>}

RadInputs == {Ramp(n) : n \in 0..(RadLen + MaxExtra)} \cup {<<F(3), F(0), F(0), F(5)>>}

Descriptors == {Desc(m, t, r) : m \in IntrMats, t \in TanInputs, r \in RadInputs}

\* the array with the given number of rows and columns that holds fx, fy,
\* cx and cy where the 3 x 3 layout of the class docstring has them and
\* continues the pattern of the identity elsewhere
Shaped(rows, cols) ==
    [i \in 1..rows |->
        [j \in 1..cols |->
            IF i = 1 /\ j = 1 THEN F(2)
            ELSE IF i = 2 /\ j = 2 THEN F(3)
            ELSE IF i = 3 /\ j = 1 THEN F(5)
            ELSE IF i = 3 /\ j = 2 THEN F(7)
            ELSE IF i = j THEN F(1)
            ELSE F(0)]]

\* intrinsic matrices that are not 3 x 3
WrongShapeMats == {Shaped(2, 2), Shaped(3, 4), Shaped(4, 4)}

WrongShapeDescriptors ==
    {Desc(m, <<F(1)>>, <<F(1), F(2)>>) : m \in WrongShapeMats}

\* an entry of a list argument: a file name (with what reading it gives) or
\* something that is not a string
FileItem(d) == [isstr |-> TRUE, read |-> d]

NotAString == [isstr |-> FALSE, read |-> NoneDesc]

ListFiles ==
    {FileItem(NoneDesc),
     FileItem(Desc(RowLayout(2, 3, 0, 5, 7), <<F(1)>>, <<F(1), F(2)>>)),
     FileItem(Desc(RowLayout(5, 3, 1, 6, 7), <<>>, Ramp(RadLen))),
     FileItem(Desc(RowLayout(2, 3, 0, 5, 7), <<F(1)>>, Ramp(RadLen + 1)))}

RECURSIVE FileLists(_)
FileLists(n) ==
    IF n = 1 THEN {<<f>> : f \in ListFiles}
    ELSE FileLists(n - 1)
         \cup {Append(l, x) : l \in {y \in FileLists(n - 1) : Len(y) = n - 1},
                              x \in ListFiles \cup {NotAString}}

\* what calibrateImages returns, [mtx, tan, rad] in the layout it builds, or
\* an exception out of OpenCV
calibrateImages ==
    {[raised |-> TRUE, val |-> NoneDesc],
     [raised |-> FALSE,
      val |-> Desc(<< <<F(2), F(1), F(0)>>, <<F(0), F(3), F(0)>>,
                      <<F(5), F(7), F(1)>> >>,
                   <<F(1), F(2)>>,
                   <<F(1), F(2), F(3), F(0), F(0), F(0)>>)]}

NoCal == [raised |-> FALSE, val |-> NoneDesc]

\* the arguments CamCalib is constructed with
CalibArgs ==
    {[type |-> "str", suffix |-> ".txt", items |-> <<FileItem(d)>>, cal |-> NoCal] :
        d \in Descriptors \cup WrongShapeDescriptors \cup {NoneDesc}}
    \cup {[type |-> "tuple", suffix |-> "", items |-> <<FileItem(d)>>, cal |-> NoCal] :
        d \in Descriptors \cup WrongShapeDescriptors}
    \cup {[type |-> "list", suffix |-> ".txt", items |-> l, cal |-> NoCal] :
        l \in FileLists(MaxFiles)}
    \cup {[type |-> "list", suffix |-> sf, items |-> <<>>, cal |-> c] :
        sf \in {".JPG", ".PNG", ".mat"}, c \in calibrateImages}
    \cup {[type |-> "other", suffix |-> "", items |-> <<>>, cal |-> NoCal]}

(***************************************************************************)
(* The object: self.attrs is the set of attributes that have been assigned *)
(***************************************************************************)
NoImage == [kind |-> "", ExifImageHeight |-> 0, ExifImageWidth |-> 0]

\* DEM = NoTerrain and invProjVars = NoIndex stand for the value None
Blank ==
    [attrs |-> {}, intrMat |-> <<>>, tanCorr |-> <<>>, radCorr |-> <<>>,
     focLen |-> <<>>, camCen |-> <<>>, intrMatCV2 |-> "",
     camloc |-> <<>>, camDirection |-> <<>>,
     DEMpath |-> "", DEMdensify |-> 0, refImage |-> NoImage,
     DEM |-> NoTerrain, invProjVars |-> NoIndex]

NoCall ==
    [class |-> "", envFile |-> "", coords |-> <<>>, ypr |-> <<>>,
     DEMdensify |-> 0,
     calib |-> [type |-> "", suffix |-> "", items |-> <<>>, cal |-> NoCal]]

\* nothing has run yet; demfirst and demret are the values the first and
\* the last getDEM call returned
NoLog ==
    [calls |-> 0, loads |-> 0, densifies |-> 0, builds |-> 0, getdems |-> 0,
     demfirst |-> NoTerrain, demret |-> NoTerrain]

CalibAttrs == {"intrMat", "tanCorr", "radCorr", "calibErr"}

\* self._intrMat, self._tanCorr, self._radCorr, self._calibErr = ...
SetCalib(s, d) ==
    [s EXCEPT !.attrs = @ \cup CalibAttrs,
              !.intrMat = d.intr, !.tanCorr = d.tan, !.radCorr = d.rad]

\* the items of a list argument that the reading loop gets through: it
\* stops after the first file that reads as None
RECURSIVE LoopPrefix(_)
LoopPrefix(items) ==
    IF items = <<>> THEN <<>>
    ELSE IF Head(items).isstr /\ Head(items).read.none THEN <<Head(items)>>
    ELSE <<Head(items)>> \o LoopPrefix(Tail(items))

\* sum(list) / len(list), elementwise
RECURSIVE VecSum(_, _)
VecSum(vs, k) ==
    IF vs = <<>> THEN F(0) ELSE RAdd(Head(vs)[k], VecSum(Tail(vs), k))

MeanVec(vs) ==
    [k \in 1..Len(vs[1]) |-> RDiv(VecSum(vs, k), F(Len(vs)))]

MeanMat(ms) ==
    [i \in 1..3 |-> MeanVec([n \in 1..Len(ms) |-> ms[n][i]])]

\* the body of CamCalib.__init__ up to "if failed": the attributes it leaves
\* and how it ends (out is "ok", "failed" or the name of an exception)
ReadCalib(s, a) ==
    IF a.type = "str" THEN
        LET ck == checkMatrix(a.items[1].read)
        IN  IF ck.raised THEN [self |-> s, out |-> "ValueError"]
            ELSE IF ck.val.none THEN [self |-> s, out |-> "failed"]
            ELSE [self |-> SetCalib(s, ck.val), out |-> "ok"]
    ELSE IF a.type = "list" /\ a.suffix = ".txt" THEN
        LET seen == LoopPrefix(a.items)
            IsFile(x) == x.isstr
            files == SelectSeq(seen, IsFile)
            cks == [n \in 1..Len(files) |-> checkMatrix(files[n].read)]
            IsGood(c) == ~c.val.none
            good == SelectSeq(cks, IsGood)
            failed == \E n \in 1..Len(seen) :
                         ~seen[n].isstr \/ seen[n].read.none
        IN  IF \E n \in 1..Len(cks) : cks[n].raised
                THEN [self |-> s, out |-> "ValueError"]
            ELSE IF good = <<>> THEN [self |-> s, out |-> "ZeroDivisionError"]
            ELSE LET mean ==
                         Desc(MeanMat([n \in 1..Len(good) |-> good[n].val.intr]),
                              MeanVec([n \in 1..Len(good) |-> good[n].val.tan]),
                              MeanVec([n \in 1..Len(good) |-> good[n].val.rad]))
                 IN  [self |-> SetCalib(s, mean),
                      out |-> IF failed THEN "failed" ELSE "ok"]
    ELSE IF a.type = "list" THEN
        \* elif args[0][0][-4:] == '.JPG' or '.PNG': taken for every suffix
        IF a.cal.raised THEN [self |-> s, out |-> "cv2.error"]
        ELSE LET ck == checkMatrix(a.cal.val)
             IN  IF ck.raised THEN [self |-> s, out |-> "ValueError"]
                 ELSE IF ck.val.none THEN [self |-> s, out |-> "failed"]
                 ELSE [self |-> SetCalib(s, ck.val), out |-> "ok"]
    ELSE IF a.type = "tuple" THEN
        LET ck == checkMatrix(a.items[1].read)
        IN  IF ck.raised THEN [self |-> s, out |-> "ValueError"]
            ELSE [self |-> SetCalib(s, ck.val), out |-> "ok"]
    ELSE [self |-> s, out |-> "failed"]

\* CamCalib.__init__: on failure it prints and returns; otherwise it reads
\* the focal length and the principal point off the matrix, and indexing
\* outside the matrix raises IndexError
CamCalib_init(s, a) ==
    LET r == ReadCalib(s, a)
        m == r.self.intrMat
    IN  IF r.out # "ok" THEN r
        ELSE IF Len(m) < 2 \/ Len(m[1]) < 2
             THEN [self |-> r.self, out |-> "IndexError"]
        ELSE IF Len(m) < 3
             THEN [self |-> [r.self EXCEPT !.attrs = @ \cup {"focLen"},
                                          !.focLen = <<m[1][1], m[2][2]>>],
                   out |-> "IndexError"]
        ELSE [self |-> [r.self EXCEPT
                            !.attrs = @ \cup {"focLen", "camCen", "intrMatCV2"},
                            !.focLen = <<r.self.intrMat[1][1], r.self.intrMat[2][2]>>,
                            !.camCen = <<r.self.intrMat[3][1], r.self.intrMat[3][2]>>,
                            !.intrMatCV2 = "None"],
              out |-> "ok"]

IsException(out) == out \notin {"ok", "failed"}

(***************************************************************************)
(* Constructor calls                                                       *)
(***************************************************************************)
EnvFiles == {"list", "file", "badfile", "other"}

\* the calibration arguments environments are constructed with
EnvDescriptors ==
    {NoneDesc,
     Desc(RowLayout(2, 3, 0, 5, 7), <<F(1)>>, <<F(1), F(2)>>),
     Desc(CV2Layout(2, 3, 1, 5, 7), <<F(1)>>, <<F(1), F(2)>>),
     Desc(RowLayout(2, 3, 0, 5, 7), Ramp(TanLen + 1), <<F(1), F(2)>>),
     Desc(Shaped(3, 4), <<F(1)>>, <<F(1), F(2)>>)}

EnvCalibArgs ==
    {a \in CalibArgs :
        \/ a.type \in {"str", "tuple"} /\ a.items[1].read \in EnvDescriptors
        \/ a.type = "list" /\ a.suffix # ".txt"
        \/ a.type = "list" /\ a.suffix = ".txt"
              /\ \A k \in 1..Len(a.items) :
                     \/ ~a.items[k].isstr
                     \/ a.items[k].read.intr = RowLayout(2, 3, 0, 5, 7)
        \/ a.type = "other"}

\* the environment file: a list of parameters or a file name, with the
\* densification factor it gives; a file that cannot be read and a value of
\* another type give no parameters at all
\* the calibration argument of the environments whose pose and terrain vary
EnvCalib ==
    [type |-> "tuple", suffix |-> "",
     items |-> <<FileItem(Desc(RowLayout(2, 3, 0, 5, 7), <<F(1)>>,
                               <<F(1), F(2)>>))>>,
     cal |-> NoCal]

\* the environment files: every calibration argument with one pose and
\* one densification factor, one calibration with every pose and factor
EnvArgs ==
    {[envFile |-> e, ypr |-> <<2, 1, 0>>, DEMdensify |-> 1, calib |-> a] :
        e \in {"list", "file"}, a \in EnvCalibArgs}
    \cup {[envFile |-> "list", ypr |-> y, DEMdensify |-> k, calib |-> EnvCalib] :
        y \in {<<>>, <<2, 1, 0>>}, k \in {1, 2}}
    \cup {[envFile |-> e, ypr |-> <<>>, DEMdensify |-> 0, calib |-> a] :
        e \in {"badfile", "other"}, a \in {x \in EnvCalibArgs : x.type = "other"}}

Calls ==
    {[class |-> "CamCalib", envFile |-> "", coords |-> <<>>, ypr |-> <<>>,
      DEMdensify |-> 0, calib |-> a] : a \in CalibArgs}
    \cup {[class |-> "CamEnv", envFile |-> e.envFile, coords |-> Vec(0, 0, 100),
           ypr |-> e.ypr, DEMdensify |-> e.DEMdensify, calib |-> e.calib] :
             e \in EnvArgs}

\* the reference image of the environments
EnvRefImage == [kind |-> "CamImage", ExifImageHeight |-> 10, ExifImageWidth |-> 8]

\* the raster in the DEM file of the environments: cells 50 apart at sea
\* level, 100 below the camera
EnvTerrain ==
    Raster(<<F(50), F(100), F(50), F(100)>>, <<F(0), F(0), F(50), F(50)>>,
           <<F(0), F(0), F(0), F(0)>>)

EnvMasks == {<<TRUE, TRUE, TRUE, TRUE>>, <<FALSE, TRUE, TRUE, TRUE>>}

Init ==
    /\ arg \in Calls
    /\ pc = "new"
    /\ exc = ""
    /\ self = Blank
    /\ cv2ret = <<>>
    /\ cv2calls = 0
    /\ camera = NoCamera
    /\ xyz = <<>>
    /\ pret = NoResult
    /\ Rret = <<>>
    /\ log = NoLog
    /\ IF arg.class = "CamEnv"
       THEN terrain = EnvTerrain /\ viewshed \in EnvMasks
       ELSE terrain = NoTerrain /\ viewshed = <<>>
    /\ built = NoIndex
    /\ query = <<>>
    /\ answer = NoAnswer
    /\ IdleTools

\* CamCalib(*args)
NewCamCalib ==
    /\ pc = "new"
    /\ arg.class = "CamCalib"
    /\ LET r == CamCalib_init(self, arg.calib)
       IN  /\ self' = r.self
           /\ pc' = IF IsException(r.out) THEN "raised" ELSE "ok"
           /\ exc' = IF IsException(r.out) THEN r.out ELSE ""
    /\ UNCHANGED <<arg, cv2ret, cv2calls, log>>
    /\ UNCHANGED projvars
    /\ UNCHANGED idxvars
    /\ UNCHANGED toolvars

\* CamEnv(envFile)
NewCamEnv ==
    /\ pc = "new"
    /\ arg.class = "CamEnv"
    /\ IF arg.envFile \in {"badfile", "other"}
       THEN \* name, coords, ... were never bound: self._name = name fails
            /\ self' = self
            /\ pc' = "raised"
            /\ exc' = "NameError"
       ELSE LET s1 == [self EXCEPT
                          !.attrs = @ \cup {"name", "camloc", "DEMpath",
                                            "DEMdensify", "GCPpath", "imagePath",
                                            "refImage", "camDirection",
                                            "calibPath"},
                          !.camloc = arg.coords,
                          !.DEMpath = "dem.tif",
                          !.DEMdensify = arg.DEMdensify,
                          !.refImage = EnvRefImage,
                          !.camDirection = IF arg.ypr = <<>> THEN <<0, 0, 0>>
                                           ELSE arg.ypr]
                r == CamCalib_init(s1, arg.calib)
            IN  IF IsException(r.out)
                THEN /\ self' = r.self
                     /\ pc' = "raised"
                     /\ exc' = r.out
                ELSE /\ self' = [r.self EXCEPT
                                    !.attrs = @ \cup {"DEM", "invProjVars"},
                                    !.DEM = NoTerrain,
                                    !.invProjVars = NoIndex]
                     /\ pc' = "ok"
                     /\ exc' = ""
    /\ UNCHANGED <<arg, cv2ret, cv2calls, log>>
    /\ UNCHANGED projvars
    /\ UNCHANGED idxvars
    /\ UNCHANGED toolvars

\* the cells getCamMatrixCV2 sets to zero, without (2,1)
ZeroCells_Three == {<<1, 2>>, <<2, 1>>, <<3, 1>>}

\* the cells getCamMatrixCV2 sets to zero: it = [[0,1],[1,0],[2,0],[2,1]]
ZeroCells == {<<1, 2>>, <<2, 1>>, <<3, 1>>, <<3, 2>>}

\* what a numpy view of the matrix buffer shows
View(m, kind) == IF kind = "transposed" THEN Transpose(m) ELSE m

\* the buffer after view[x,y] = 0. for the four cells and view[2,2] = 1.
WriteThrough(m, kind) ==
    [i \in 1..Len(m) |->
        [j \in 1..Len(m[1]) |->
            LET cell == IF kind = "transposed" THEN <<j, i>> ELSE <<i, j>>
            IN  IF cell \in ZeroCells THEN F(0)
                ELSE IF cell = <<3, 3>> THEN F(1)
                ELSE m[i][j]]]

\* the body of getCamMatrixCV2 on the object s: the object after the call
\* and the matrix returned.  The first call makes _intrMatCV2 a view of
\* _intrMat (transposed or not) and writes the zeros and the one through it
CamMatrixCV2(s) ==
    IF s.intrMatCV2 = "None"
    THEN LET m == s.intrMat
             kind == IF /\ m[3][1] # F(0) /\ m[3][2] # F(0)
                        /\ m[1][3] = F(0) /\ m[2][3] = F(0)
                     THEN "transposed" ELSE "view"
             buf == WriteThrough(m, kind)
         IN  [self |-> [s EXCEPT !.intrMatCV2 = kind, !.intrMat = buf],
              ret |-> View(buf, kind)]
    ELSE [self |-> s, ret |-> View(s.intrMat, s.intrMatCV2)]

\* the calls made on the object so far
CallsMade == cv2calls + log.calls

\* getCamMatrixCV2()
getCamMatrixCV2 ==
    /\ pc = "ok"
    /\ "intrMatCV2" \in self.attrs
    /\ CallsMade < MaxCalls
    /\ LET r == CamMatrixCV2(self)
       IN  /\ self' = r.self
           /\ cv2ret' = r.ret
    /\ cv2calls' = cv2calls + 1
    /\ UNCHANGED <<arg, pc, exc, log>>
    /\ UNCHANGED projvars
    /\ UNCHANGED idxvars
    /\ UNCHANGED toolvars

\* the log after a getDEM call has returned dem
Returned(l, dem) ==
    [l EXCEPT !.getdems = @ + 1, !.demret = dem,
              !.demfirst = IF l.getdems = 0 THEN dem ELSE @]

\* getDEM storing an empty raster when the load fails
DEMCache_KeepPartial(s, l, readable) ==
    IF s.DEM = NoTerrain
    THEN IF ~readable
         THEN [self |-> [s EXCEPT !.DEM = Raster(<<>>, <<>>, <<>>)], log |-> l,
               raised |-> TRUE, ret |-> NoTerrain]
         ELSE LET loaded == load_DEM(s.DEMpath)
                  dense == s.DEMdensify > 1
                  dem == IF dense THEN densify(loaded, s.DEMdensify) ELSE loaded
              IN  [self |-> [s EXCEPT !.DEM = dem],
                   log |-> Returned([l EXCEPT !.loads = @ + 1,
                                              !.densifies = IF dense THEN @ + 1
                                                            ELSE @],
                                    dem),
                   raised |-> FALSE, ret |-> dem]
    ELSE [self |-> s, log |-> Returned(l, s.DEM), raised |-> FALSE, ret |-> s.DEM]

\* getDEM loading and densifying on every call
DEMCache_Reload(s, l, readable) ==
    IF ~readable
    THEN [self |-> s, log |-> l, raised |-> TRUE, ret |-> NoTerrain]
    ELSE LET loaded == load_DEM(s.DEMpath)
             dense == s.DEMdensify > 1
             dem == IF dense THEN densify(loaded, s.DEMdensify) ELSE loaded
         IN  [self |-> [s EXCEPT !.DEM = dem],
              log |-> Returned([l EXCEPT !.loads = @ + 1,
                                         !.densifies = IF dense THEN @ + 1 ELSE @],
                               dem),
              raised |-> FALSE, ret |-> dem]

\* the body of getDEM on the object s: while _DEM is None the raster is
\* loaded (load_DEM raises when the file cannot be read), densified when
\* the factor is above 1, and stored; afterwards _DEM is returned
DEMCache(s, l, readable) ==
    IF s.DEM = NoTerrain
    THEN IF ~readable
         THEN [self |-> s, log |-> l, raised |-> TRUE, ret |-> NoTerrain]
         ELSE LET loaded == load_DEM(s.DEMpath)
                  dense == s.DEMdensify > 1
                  dem == IF dense THEN densify(loaded, s.DEMdensify) ELSE loaded
              IN  [self |-> [s EXCEPT !.DEM = dem],
                   log |-> Returned([l EXCEPT !.loads = @ + 1,
                                              !.densifies = IF dense THEN @ + 1
                                                            ELSE @],
                                    dem),
                   raised |-> FALSE, ret |-> dem]
    ELSE [self |-> s, log |-> Returned(l, s.DEM), raised |-> FALSE, ret |-> s.DEM]

\* getDEM()
getDEM ==
    /\ pc = "ok"
    /\ arg.class = "CamEnv"
    /\ CallsMade < MaxCalls
    /\ \E readable \in (IF self.DEM = NoTerrain THEN BOOLEAN ELSE {TRUE}) :
          LET g == DEMCache(self, log, readable)
          IN  /\ self' = g.self
              /\ log' = [g.log EXCEPT !.calls = @ + 1]
              /\ exc' = IF g.raised THEN "IOError" ELSE ""
    /\ UNCHANGED <<arg, pc, cv2ret, cv2calls>>
    /\ UNCHANGED <<terrain, viewshed, built, query, answer>>
    /\ UNCHANGED projvars
    /\ UNCHANGED toolvars

\* the pixel coordinates of a polygon found in an image: a pixel of a
\* terrain cell, a pixel between the cells and a pixel away from them
EnvPolygons == {<<<<F(5), Frac(17, 2)>>, <<Frac(11, 2), Frac(19, 2)>>, <<F(1), F(1)>>>>}

\* the attributes of the environment that setInvProjVars is called with
IndexAttrs == {"camloc", "camDirection", "radCorr", "tanCorr", "focLen",
               "camCen", "refImage"}

\* the inverse projection variables of a request: the attribute of the
\* environment, which is never assigned after construction
RequestIndex_Stored(s, dem) == s.invProjVars

\* the inverse projection variables of a request on the environment s
RequestIndex(s, dem) ==
    setInvProjVars(DemRaster(dem), s.camloc, s.camDirection, s.radCorr,
                   s.tanCorr, s.focLen, s.camCen, s.refImage)

\* the answer of invproject for the polygon is recorded
Answered(polygon, xyzpts) ==
    /\ query' = polygon
    /\ answer' = xyzpts
    /\ exc' = IF xyzpts.raised THEN "QhullError" ELSE ""

\* the rest of a request on the environment s once the variables are
\* built: getCamMatrixCV2 when the images are to be corrected (calibFlag),
\* and invproject for the polygon of the image, if there is one and the
\* variables are not None
AnswerWith(s, called, invprojvars, polygons) ==
    /\ log' = [called EXCEPT !.builds = @ + 1]
    /\ built' = invprojvars
    /\ \E calibFlag \in BOOLEAN :
          self' = IF calibFlag THEN CamMatrixCV2(s).self ELSE s
    /\ \E polys \in polygons :
          IF polys = <<>> \/ invprojvars.none
          THEN /\ exc' = ""
               /\ UNCHANGED <<query, answer>>
          ELSE \E simplex \in SimplexChoices(Triangles(invprojvars.uv0),
                                             invprojvars.uv0, polys[1], 1) :
                  Answered(polys[1], invproject(polys[1], invprojvars, simplex))

\* a request on the environment s that an exception ends: nothing is
\* assigned after the raise
Aborted(s, called, exception) ==
    /\ self' = s
    /\ log' = called
    /\ exc' = exception
    /\ UNCHANGED <<built, query, answer>>

\* what calcAutoAreas and calcManualAreas do with the environment: getDEM,
\* setInvProjVars, and the rest of the request.  voxelviewshed may raise
\* inside setInvProjVars (sees = FALSE), which has no handler
AreaRequest(polygons) ==
    \E readable \in (IF self.DEM = NoTerrain THEN BOOLEAN ELSE {TRUE}) :
        LET g == DEMCache(self, log, readable)
            called == [g.log EXCEPT !.calls = @ + 1]
        IN  IF g.raised THEN Aborted(g.self, called, "IOError")
            ELSE IF ~(IndexAttrs \subseteq g.self.attrs)
                 THEN Aborted(g.self, called, "AttributeError")
            ELSE \E sees \in BOOLEAN :
                    IF ~sees THEN Aborted(g.self, called, "ViewshedError")
                    ELSE AnswerWith(g.self, called,
                                    RequestIndex(g.self, g.ret), polygons)

\* Area.calcAutoAreas(): the detection may find no polygon
calcAutoAreas ==
    /\ pc = "ok"
    /\ arg.class = "CamEnv"
    /\ CallsMade < MaxCalls
    /\ AreaRequest({<<>>} \cup {<<p>> : p \in EnvPolygons})
    /\ UNCHANGED <<arg, pc, cv2ret, cv2calls, terrain, viewshed>>
    /\ UNCHANGED projvars
    /\ UNCHANGED toolvars

\* Area.calcManualAreas(): the polygon is the one the user clicks
calcManualAreas ==
    /\ pc = "ok"
    /\ arg.class = "CamEnv"
    /\ CallsMade < MaxCalls
    /\ AreaRequest({<<p>> : p \in EnvPolygons})
    /\ UNCHANGED <<arg, pc, cv2ret, cv2calls, terrain, viewshed>>
    /\ UNCHANGED projvars
    /\ UNCHANGED toolvars

Next ==
    \/ NewCamCalib
    \/ NewCamEnv
    \/ getCamMatrixCV2
    \/ getDEM
    \/ calcAutoAreas
    \/ calcManualAreas

Spec == Init /\ [][Next]_vars

(***************************************************************************)
(* The projection kernel as a state machine: getR and project are pure     *)
(* functions; a behaviour chooses a camera and makes one call of one of    *)
(* them on it.                                                             *)
(***************************************************************************)
InitProject ==
    /\ camera \in GenericCameras \cup ScenarioCameras
    /\ xyz = <<>>
    /\ pret = NoResult
    /\ Rret = <<>>
    /\ arg = NoCall
    /\ pc = "new"
    /\ exc = ""
    /\ self = Blank
    /\ cv2ret = <<>>
    /\ cv2calls = 0
    /\ log = NoLog
    /\ IdleIndex
    /\ IdleTools

CallGetR ==
    /\ Rret = <<>>
    /\ xyz = <<>>
    /\ Rret' = getR(camera.camdirection)
    /\ UNCHANGED <<camera, xyz, pret>>
    /\ UNCHANGED envvars
    /\ UNCHANGED idxvars
    /\ UNCHANGED toolvars

CallProject ==
    /\ xyz = <<>>
    /\ Rret = <<>>
    /\ \E b \in BatchesFor(camera) :
          /\ xyz' = b
          /\ pret' = project(camera.camloc, camera.camdirection,
                             camera.distort.radial, camera.distort.tangen,
                             camera.foclen, camera.camcen, camera.refimg, b)
    /\ UNCHANGED <<camera, Rret>>
    /\ UNCHANGED envvars
    /\ UNCHANGED idxvars
    /\ UNCHANGED toolvars

NextProject == CallGetR \/ CallProject

SpecProject == InitProject /\ [][NextProject]_vars

(***************************************************************************)
(* The inverse projection as a state machine: a behaviour chooses a camera,*)
(* a terrain and its viewshed and builds the inverse projection variables. *)
(***************************************************************************)
InitIndex ==
    /\ camera \in IndexCameras
    /\ terrain \in Terrains
    /\ viewshed \in Masks(Len(terrain.X))
    /\ built = NoIndex
    /\ query = <<>>
    /\ answer = NoAnswer
    /\ xyz = <<>>
    /\ pret = NoResult
    /\ Rret = <<>>
    /\ arg = NoCall
    /\ pc = "new"
    /\ exc = ""
    /\ self = Blank
    /\ cv2ret = <<>>
    /\ cv2calls = 0
    /\ log = NoLog
    /\ IdleTools

CallSetInvProjVars ==
    /\ built.none
    /\ \E dem \in DemArgs :
          built' = setInvProjVars(dem, camera.camloc, camera.camdirection,
                                  camera.distort.radial, camera.distort.tangen,
                                  camera.foclen, camera.camcen, camera.refimg)
    /\ UNCHANGED <<terrain, viewshed, query, answer>>
    /\ UNCHANGED projvars
    /\ UNCHANGED envvars
    /\ UNCHANGED toolvars

CallInvproject ==
    /\ ~built.none
    /\ query = <<>>
    /\ LET T == Triangles(built.uv0)
       IN  \E uv \in Queries :
             \E simplex \in SimplexChoices(T, built.uv0, uv, 1) :
                /\ query' = uv
                /\ answer' = invproject(uv, built, simplex)
    /\ UNCHANGED <<terrain, viewshed, built>>
    /\ UNCHANGED projvars
    /\ UNCHANGED envvars
    /\ UNCHANGED toolvars

NextIndex == CallSetInvProjVars \/ CallInvproject

SpecIndex == InitIndex /\ [][NextIndex]_vars

(***************************************************************************)
(* Properties of the projection kernel                                     *)
(***************************************************************************)
Projected == xyz # <<>>

\* the point minus the camera location, times the transposed rotation
\* matrix: component k is the inner product with row k of the matrix
Rotated(pt) ==
    LET M == getR(camera.camdirection)
        d == [j \in 1..3 |-> RSub(pt[j], camera.camloc[j])]
    IN  [k \in 1..3 |->
            RAdd(RAdd(RMul(d[1], M[k][1]), RMul(d[2], M[k][2])),
                 RMul(d[3], M[k][3]))]

imageWidth == camera.refimg.ExifImageWidth

imageHeight == camera.refimg.ExifImageHeight

\* the pixel of the forward-projection formula, without the depth test
FormulaPixel(pt) ==
    LET c == Rotated(pt)
    IN  << RAdd(RMul(camera.foclen[1], RDiv(c[1], c[3])), camera.camcen[1]),
           RAdd(RMul(camera.foclen[2], RDiv(c[2], c[3])), camera.camcen[2]) >>

InBounds(uv) ==
    /\ RLe(F(1), uv[1]) /\ RLe(uv[1], F(imageWidth))
    /\ RLe(F(1), uv[2]) /\ RLe(uv[2], F(imageHeight))

\* C1: every point whose rotated z component is <= 0 gets the pixel
\* (NaN, NaN) and is not in frame, wherever it lies horizontally and
\* vertically, depth exactly 0 included.
C1_BehindIsNaN ==
    \A i \in 1..Len(xyz) :
        RLe(Rotated(xyz[i])[3], F(0)) =>
            /\ pret.uv[i] = <<NaN, NaN>>
            /\ pret.inframe[i] = FALSE

\* a batch with one point at depth exactly 0 off the optical axis, and one
\* behind the camera whose formula pixel lies inside the image bounds
C1_Witness ==
    /\ Projected
    /\ \E i, j \in 1..Len(xyz) :
          /\ Rotated(xyz[i])[3] = F(0)
          /\ Rotated(xyz[i])[1] # F(0)
          /\ RLt(Rotated(xyz[j])[3], F(0))
          /\ InBounds(FormulaPixel(xyz[j]))
          /\ pret.uv[i] = <<NaN, NaN>>
          /\ pret.uv[j] = <<NaN, NaN>>

\* C2: a point is marked in frame exactly when its depth is > 0 and
\* 1 <= u <= image width and 1 <= v <= image height of the reference image.
C2_InFrameIff ==
    \A i \in 1..Len(xyz) :
        pret.inframe[i] <=>
            /\ RGt(Rotated(xyz[i])[3], F(0))
            /\ RLe(F(1), pret.uv[i][1]) /\ RLe(pret.uv[i][1], F(imageWidth))
            /\ RLe(F(1), pret.uv[i][2]) /\ RLe(pret.uv[i][2], F(imageHeight))

\* a point in frame on the right edge (u = width) of an image that is wider
\* than tall
C2_Witness ==
    /\ Projected
    /\ imageWidth > imageHeight
    /\ \E i \in 1..Len(xyz) :
          pret.inframe[i] /\ pret.uv[i][1] = F(imageWidth)

\* C3: for every point with depth > 0, u = fx * (x'/z') + cx,
\* v = fy * (y'/z') + cy and depth = z', with (x',y',z') the point minus the
\* camera location times the transposed rotation matrix; the result of a
\* point does not depend on the other points of the batch.
C3_ForwardFormula ==
    \A i \in 1..Len(xyz) :
        RGt(Rotated(xyz[i])[3], F(0)) =>
            /\ pret.uv[i] = FormulaPixel(xyz[i])
            /\ pret.depth[i] = Rotated(xyz[i])[3]

\* a batch of two points in front of an obliquely oriented camera that
\* project to two different pixels
C3_Witness ==
    /\ Len(xyz) = 2
    /\ camera.camdirection = <<4, 4, 4>>
    /\ RGt(pret.depth[1], F(0))
    /\ RGt(pret.depth[2], F(0))
    /\ pret.uv[1] # pret.uv[2]
    /\ pret.uv[1][1] # pret.uv[1][2]

\* the camera looks straight down: third row of the rotation matrix is
\* (0, 0, -1), i.e. the pitch has sine 1
LookingDown == Sin(camera.camdirection[2]) = F(1)

ScenarioA ==
    /\ camera \in ScenarioCameras
    /\ LookingDown
    /\ xyz = <<ScenarioPoint>>

\* sine and cosine of roll - yaw
SinRollMinusYaw ==
    RSub(RMul(Sin(camera.camdirection[3]), Cos(camera.camdirection[1])),
         RMul(Cos(camera.camdirection[3]), Sin(camera.camdirection[1])))

CosRollMinusYaw ==
    RAdd(RMul(Cos(camera.camdirection[3]), Cos(camera.camdirection[1])),
         RMul(Sin(camera.camdirection[3]), Sin(camera.camdirection[1])))

\* C4 as stated: with the camera at (0,0,100) looking straight down, focal
\* length (1000,1000) and principal point (500,500), the point (10,10,0)
\* projects to the pixel (600,600) with depth 100.
C4_Original ==
    ScenarioA => /\ pret.uv[1] = <<F(600), F(600)>>
                 /\ pret.depth[1] = F(100)

\* C4 amended: in that scenario the depth is 100 and the pixel is
\* (500 - 100 (sin d + cos d), 500 - 100 (cos d - sin d)) with
\* d = roll - yaw; it is (600,600) exactly when d is a half turn and
\* (400,400) when roll = yaw.
C4_ScenarioPixel ==
    ScenarioA =>
        /\ pret.depth[1] = F(100)
        /\ pret.uv[1] =
              << RSub(F(500), RMul(F(100), RAdd(SinRollMinusYaw, CosRollMinusYaw))),
                 RSub(F(500), RMul(F(100), RSub(CosRollMinusYaw, SinRollMinusYaw))) >>
        /\ (pret.uv[1] = <<F(600), F(600)>>) <=> (CosRollMinusYaw = F(-1))
        /\ (camera.camdirection[1] = camera.camdirection[3])
              => pret.uv[1] = <<F(400), F(400)>>

\* the scenario with yaw a half turn and no roll, giving (600,600)
C4_Witness ==
    /\ ScenarioA
    /\ camera.camdirection = <<2, 1, 0>>
    /\ pret.uv[1] = <<F(600), F(600)>>
    /\ pret.depth[1] = F(100)

\* the matrix of the closed form: rows 0 and 1 negated, row 2 not
ClosedFormR(a) ==
    LET c0 == Cos(a[1])
        c1 == Cos(a[2])
        c2 == Cos(a[3])
        s0 == Sin(a[1])
        s1 == Sin(a[2])
        s2 == Sin(a[3])
        m3(x, y, z) == RMul(RMul(x, y), z)
    IN  << << RNeg(RSub(m3(s2, s1, c0), RMul(c2, s0))),
              RNeg(RAdd(m3(s2, s1, s0), RMul(c2, c0))),
              RNeg(RMul(s2, c1)) >>,
           << RNeg(RAdd(m3(c2, s1, c0), RMul(s2, s0))),
              RNeg(RSub(m3(c2, s1, s0), RMul(s2, c0))),
              RNeg(RMul(c2, c1)) >>,
           << RMul(c1, c0), RMul(c1, s0), RNeg(s1) >> >>

\* C5: getR returns exactly the closed-form matrix of the orientation, rows
\* 0 and 1 negated and row 2 not; the value is a function of the
\* orientation alone.
C5_ClosedForm ==
    Rret # <<>> => Rret = ClosedFormR(camera.camdirection)

\* getR called on an orientation looking straight down, with no zero angle
C5_Witness ==
    /\ Rret # <<>>
    /\ camera.camdirection = <<4, 1, 3>>
    /\ Rret[3] = <<F(0), F(0), F(-1)>>

\* C6: the matrix returned by getR times its transpose is the identity.
C6_Orthonormal ==
    Rret # <<>> =>
        \A i, k \in 1..3 :
            RAdd(RAdd(RMul(Rret[i][1], Rret[k][1]), RMul(Rret[i][2], Rret[k][2])),
                 RMul(Rret[i][3], Rret[k][3]))
              = IF i = k THEN F(1) ELSE F(0)

\* getR called at a gimbal-lock pitch (cosine of the pitch is 0)
C6_Witness ==
    /\ Rret # <<>>
    /\ Cos(camera.camdirection[2]) = F(0)
    /\ camera.camdirection[1] = 4
    /\ camera.camdirection[3] = 4

(***************************************************************************)
(* Properties of calibration and environment construction                  *)
(***************************************************************************)
Constructed == pc = "ok"

\* the descriptor a single-file or raw-data construction was given
GivenDesc == arg.calib.items[1].read

SingleSource == arg.calib.type \in {"str", "tuple"}

\* C7: the matrix returned by getCamMatrixCV2 has zeros at (0,1), (1,0),
\* (2,0), (2,1) and 1 at (2,2), on the first call and on every later call.
C7_CanonicalPattern ==
    cv2calls >= 1 =>
        /\ cv2ret[1][2] = F(0)
        /\ cv2ret[2][1] = F(0)
        /\ cv2ret[3][1] = F(0)
        /\ cv2ret[3][2] = F(0)
        /\ cv2ret[3][3] = F(1)

\* a second call on a calibration whose input matrix, in the OpenCV layout,
\* had a nonzero skew at (0,1)
C7_Witness ==
    /\ cv2calls = 2
    /\ SingleSource
    /\ GivenDesc.intr = CV2Layout(2, 3, 1, 5, 7)
    /\ cv2ret[1][3] = F(5)

\* C8: for a tangential input of length 0..2 and a radial input of length
\* 0..6, checkMatrix returns a tangential vector of length 2 and a radial
\* vector of length 6 that start with the input values in order and are
\* zero after them.
C8_Padding ==
    (/\ Constructed
     /\ SingleSource
     /\ ~GivenDesc.none
     /\ Len(GivenDesc.tan) <= 2
     /\ Len(GivenDesc.rad) <= 6)
    => /\ Len(self.tanCorr) = 2
       /\ Len(self.radCorr) = 6
       /\ \A k \in 1..2 :
              self.tanCorr[k] = IF k <= Len(GivenDesc.tan) THEN GivenDesc.tan[k]
                                ELSE F(0)
       /\ \A k \in 1..6 :
              self.radCorr[k] = IF k <= Len(GivenDesc.rad) THEN GivenDesc.rad[k]
                                ELSE F(0)

\* a calibration built from one tangential and four radial coefficients
C8_Witness ==
    /\ Constructed
    /\ SingleSource
    /\ Len(GivenDesc.tan) = 1
    /\ Len(GivenDesc.rad) = 4
    /\ self.tanCorr = <<F(1), F(0)>>
    /\ self.radCorr = <<F(1), F(2), F(3), F(4), F(0), F(0)>>

\* C9 as stated: a constructor that returns leaves no partially initialised
\* object: when the calibration cannot be read the construction is aborted,
\* so every object that exists has its matrix, focal length and principal
\* point.
C9_NoPartialInit ==
    Constructed =>
        {"intrMat", "tanCorr", "radCorr", "focLen", "camCen", "intrMatCV2"}
            \subseteq self.attrs

Overlong(d) == ~d.none /\ (Len(d.tan) > 2 \/ Len(d.rad) > 6)

\* an over-long descriptor is among the files of the argument
AnyOverlong ==
    \E k \in 1..Len(arg.calib.items) :
        arg.calib.items[k].isstr /\ Overlong(arg.calib.items[k].read)

\* an over-long descriptor reaches checkMatrix: no file before it reads as
\* None (which ends the reading loop)
OverlongRead ==
    \E k \in 1..Len(arg.calib.items) :
        /\ arg.calib.items[k].isstr
        /\ Overlong(arg.calib.items[k].read)
        /\ \A j \in 1..(k - 1) :
               ~(arg.calib.items[j].isstr /\ arg.calib.items[j].read.none)

WrongShape(d) ==
    /\ ~d.none
    /\ \/ Len(d.intr) # 3
       \/ \E i \in 1..Len(d.intr) : Len(d.intr[i]) # 3

\* C11 as stated: a calibration whose intrinsic matrix is not 3 x 3 (2 x 2,
\* 3 x 4, 4 x 4) makes the constructor raise, and no calibration object with
\* a focal length and principal point is made from it.
C11_WrongShapeRejected ==
    (pc # "new" /\ SingleSource /\ WrongShape(GivenDesc)) =>
        /\ pc = "raised"
        /\ "camCen" \notin self.attrs

(***************************************************************************)
(* Properties of the life of an environment                                *)
(***************************************************************************)
\* C13: the inverse projection variables of an environment are built at
\* most once: of the requests made on one environment (calcAutoAreas,
\* calcManualAreas) only the first runs setInvProjVars
C13_BuiltOnce == log.builds <= 1

\* C14: getDEM loads the raster, and densifies it when the factor is above
\* 1, on the first call that returns only; every call returns the one
\* cached terrain, which is never densified twice
C14_DEMLoadedOnce ==
    /\ log.loads <= 1
    /\ log.densifies <= 1
    /\ log.getdems >= 1 =>
          /\ log.loads = 1
          /\ log.densifies = (IF self.DEMdensify > 1 THEN 1 ELSE 0)
          /\ log.demret = log.demfirst
          /\ log.demret = self.DEM
          /\ self.DEM.factor = (IF self.DEMdensify > 1 THEN self.DEMdensify ELSE 1)

\* getDEM has returned twice on an environment with a factor of 2
C14_Witness ==
    /\ log.getdems >= 2
    /\ self.DEMdensify = 2
    /\ log.densifies = 1
    /\ log.demret.factor = 2

\* what the environment has been given so far
Calibrated == {"intrMat", "tanCorr", "radCorr", "focLen", "camCen"} \subseteq self.attrs

PoseSet == {"camloc", "camDirection"} \subseteq self.attrs

TerrainBound == self.DEM # NoTerrain

IndexBuilt == ~built.none

\* C15 as stated: an environment goes through Calibrated, PoseSet,
\* TerrainBound, IndexBuilt in that order: one that has its pose has its
\* calibration, one that has its terrain has its pose, one that has its
\* index has its terrain
C15_StageOrder ==
    pc = "ok" =>
        /\ PoseSet => Calibrated
        /\ TerrainBound => PoseSet
        /\ IndexBuilt => TerrainBound

\* C16: a request on an environment builds the inverse projection
\* variables from the terrain bound to it before it answers: once a request
\* has got its terrain the variables are built (never None) from that
\* terrain, and an answer is invproject's answer on the built variables
C16_BuiltBeforeAnswer ==
    /\ log.builds >= 1 =>
          /\ TerrainBound
          /\ IndexBuilt
          /\ built = setInvProjVars(DemRaster(self.DEM), self.camloc,
                                    self.camDirection, self.radCorr,
                                    self.tanCorr, self.focLen, self.camCen,
                                    self.refImage)
    /\ query # <<>> =>
          /\ IndexBuilt
          /\ \E simplex \in SimplexChoices(Triangles(built.uv0), built.uv0,
                                           query, 1) :
                answer = invproject(query, built, simplex)

\* the first request on an environment has built the variables and has
\* answered with a point of the terrain
C16_Witness ==
    /\ log.builds = 1
    /\ TerrainBound
    /\ IndexBuilt
    /\ query # <<>>
    /\ ~answer.raised
    /\ \E n \in 1..Len(answer.xyz) : ~IsNaN(answer.xyz[n][1])

\* C20 as stated: no operation on a constructed object changes the matrix
\* getCamMatrix returns, the distortion coefficients, the camera location
\* or the camera direction
C20_CalibrationFrozen ==
    [][pc = "ok" =>
          /\ self'.intrMat = self.intrMat
          /\ self'.radCorr = self.radCorr
          /\ self'.tanCorr = self.tanCorr
          /\ self'.camloc = self.camloc
          /\ self'.camDirection = self.camDirection]_vars

\* a call on the environment that an exception of the terrain load or of
\* the visibility computation has ended
TerrainFailure == exc' \in {"IOError", "ViewshedError"} /\ log'.calls = log.calls + 1

Built == ~built.none

Cell(i) == <<terrain.X[i], terrain.Y[i], terrain.Z[i]>>

\* the points projected by the camera
Projection(pts) ==
    project(camera.camloc, camera.camdirection, camera.distort.radial,
            camera.distort.tangen, camera.foclen, camera.camcen, camera.refimg,
            pts)

\* the cell projected on its own by the camera
CellProjection(i) == Projection(<<Cell(i)>>)

\* every cell of the terrain, visible or not, projected
TerrainProjection == Projection([i \in 1..Len(terrain.X) |-> Cell(i)])

\* the k-th cell of the set K in the order of the grid
KthCell(K, k) == CHOOSE i \in K : Cardinality({j \in K : j < i}) = k - 1

\* C12: the list setInvProjVars returns has one row for each terrain cell
\* that is visible and projects in frame, in grid order, and no other row:
\* X, Y, Z and uv0 have the same length, row k of uv0 is the projection of
\* (X[k], Y[k], Z[k]), and every uv0 entry lies in [1,width] x [1,height]
\* (so none is NaN).
C12_IndexRows ==
    Built =>
        LET inframe == TerrainProjection.inframe
            K == {i \in 1..Len(terrain.X) : viewshed[i] /\ inframe[i]}
            rows == [k \in 1..Len(built.X) |->
                        <<built.X[k], built.Y[k], built.Z[k]>>]
            uvrows == Projection(rows).uv
        IN  /\ Len(built.X) = Cardinality(K)
            /\ Len(built.Y) = Len(built.X)
            /\ Len(built.Z) = Len(built.X)
            /\ Len(built.uv0) = Len(built.X)
            /\ \A k \in 1..Len(built.X) :
                  /\ rows[k] = Cell(KthCell(K, k))
                  /\ built.uv0[k] = uvrows[k]
                  /\ InBounds(built.uv0[k])
                  /\ ~IsNaN(built.uv0[k][1]) /\ ~IsNaN(built.uv0[k][2])

\* an index of at least two rows built from a grid with a hidden cell that
\* would project in frame, and a visible cell behind the camera whose pixel
\* is NaN
C12_Witness ==
    /\ Built
    /\ Len(built.X) >= 2
    /\ \E i, j \in 1..Len(terrain.X) :
          /\ ~viewshed[i] /\ CellProjection(i).inframe[1]
          /\ viewshed[j] /\ IsNaN(CellProjection(j).uv[1][1])

\* q lies on the closed segment from a to b
Between(a, b, q) ==
    /\ Cross(a, b, q) = F(0)
    /\ RLe(RAdd(RMul(RSub(q[1], a[1]), RSub(q[1], b[1])),
                RMul(RSub(q[2], a[2]), RSub(q[2], b[2]))), F(0))

\* q lies in the closed triangle a, b, c
Within(a, b, c, q) ==
    LET d == <<Cross(a, b, q), Cross(b, c, q), Cross(c, a, q)>>
    IN  \/ \A k \in 1..3 : RGe(d[k], F(0))
        \/ \A k \in 1..3 : RLe(d[k], F(0))

\* q lies in the convex hull of the points
InHull(points, q) ==
    \E i, j, k \in 1..Len(points) :
        \/ Between(points[i], points[j], q)
        \/ /\ Cross(points[i], points[j], points[k]) # F(0)
           /\ Within(points[i], points[j], points[k], q)

NaNRow == <<NaN, NaN, NaN>>

\* C17 as stated: invproject raises nothing and returns one row for each
\* query pixel, in the order of the pixels; the row of a pixel outside the
\* convex hull of the pixels of the index is NaN in X, Y and Z, and the row
\* of a pixel is what invproject returns for that pixel alone
C17_OutsideHullNaN ==
    query # <<>> =>
        /\ ~answer.raised
        /\ Len(answer.xyz) = Len(query)
        /\ \A n \in 1..Len(answer.xyz) :
               /\ ~InHull(built.uv0, query[n]) => answer.xyz[n] = NaNRow
               /\ \E simplex \in SimplexChoices(Triangles(built.uv0), built.uv0,
                                                <<query[n]>>, 1) :
                      answer.xyz[n] = invproject(<<query[n]>>, built, simplex).xyz[1]

\* every cell of the terrain is visible and projects in frame
WholeGridIndexed ==
    /\ \A i \in 1..Len(terrain.X) : viewshed[i]
    /\ \A i \in 1..Len(terrain.X) : TerrainProjection.inframe[i]

\* C18 as stated: when every cell of the grid is visible and in frame,
\* invproject on the pixel a cell projects to returns the x, y, z of that
\* cell, for every cell of the grid
C18_NodeRoundTrip ==
    (query # <<>> /\ WholeGridIndexed) =>
        \A i \in 1..Len(terrain.X) :
            TerrainProjection.uv[i] = query[1] =>
                /\ ~answer.raised
                /\ answer.xyz[1] = Cell(i)

\* the terrain cells projected with the distortion coefficients d in place
\* of the camera's
ProjectionWith(d) ==
    project(camera.camloc, camera.camdirection, d.radial, d.tangen,
            camera.foclen, camera.camcen, camera.refimg,
            [i \in 1..Len(terrain.X) |-> Cell(i)])

\* the variables built with the distortion coefficients d in place of the
\* camera's
IndexWith(d) ==
    setInvProjVars(DemRaster(terrain), camera.camloc, camera.camdirection,
                   d.radial, d.tangen, camera.foclen, camera.camcen,
                   camera.refimg)

\* C19: the distortion coefficients have no effect: project on the cells of
\* the terrain returns the same pixels, depths and in-frame flags for every
\* pair of radial and tangential coefficients, and setInvProjVars the same
\* variables
C19_DistortionIgnored ==
    Built =>
        LET own == ProjectionWith(camera.distort)
        IN  \A d \in Distortions \ {camera.distort} :
                /\ ProjectionWith(d) = own
                /\ IndexWith(d) = built

\* variables of at least two rows built by a camera with distortion
\* coefficients that, applied, would move a pixel
C19_Witness ==
    /\ Built
    /\ Len(built.uv0) >= 2
    /\ camera.distort = SomeDistortion
    /\ LET rows == [k \in 1..Len(built.X) |->
                       <<built.X[k], built.Y[k], built.Z[k]>>]
           xy == PerspectiveDivide(CamCoords(camera.camloc,
                                             camera.camdirection, rows))
       IN  Distort(xy, camera.distort.radial, camera.distort.tangen) # xy


(***************************************************************************)
(* Automated area detection: the Area object, its colour range and         *)
(* threshold, and the polygons calcAutoArea retains.  A contour is the     *)
(* array of its points; the model keeps its number of points and the place *)
(* findContours gave it.                                                   *)
(***************************************************************************)
MaxContours == 3   \* most contours findContours gives for one image
MaxImages == 2     \* most images in the sequence of an Area

MinPoints == 40    \* calcAutoArea drops contours with fewer points

ContourSizes == {MinPoints - 1, MinPoints, MinPoints + 1}

RECURSIVE ContourLists(_)
ContourLists(n) ==
    IF n = 0 THEN {<<>>}
    ELSE ContourLists(n - 1)
         \cup {Append(l, [id |-> n, npts |-> k]) :
                 l \in {y \in ContourLists(n - 1) : Len(y) = n - 1},
                 k \in ContourSizes}

\* the intensities of the two pixels the user clicks in defineColourrange
Clicks == {<<0, 200>>, <<200, 100>>}

\* the images of an Area: the contours findContours gives for each and the
\* pixels the user would click on it
AreaImages ==
    {<<[line |-> l, clicked |-> c]>> : l \in ContourLists(MaxContours), c \in Clicks}
    \cup {[i \in 1..n |->
              [line |-> IF i = 1 THEN l ELSE <<[id |-> 1, npts |-> MinPoints]>>,
               clicked |-> IF i = 1 THEN <<0, 200>> ELSE <<200, 100>>]] :
            n \in 2..MaxImages,
            l \in {y \in ContourLists(MaxContours) : Len(y) = 1}}

\* Area.__init__ sets neither _colourrange nor _threshold
NewArea ==
    [attrs |-> {"camEnv", "calibFlag", "pxplot", "maximg", "mask", "enhance"},
     colourrange |-> None, threshold |-> None]

\* an Area as constructed, and one whose caller assigned _colourrange = None
AreaObjects ==
    {NewArea, [NewArea EXCEPT !.attrs = @ \cup {"colourrange"}]}

\* defineColourrange: a zero intensity becomes 1, the larger one is the
\* upper boundary
defineColourrange(clicked) ==
    LET col1 == IF clicked[1] = 0 THEN 1 ELSE clicked[1]
        col2 == IF clicked[2] = 0 THEN 1 ELSE clicked[2]
    IN  IF col1 > col2 THEN <<col1, col2>> ELSE <<col2, col1>>

\* list.sort(key=len): a stable sort by the number of points
RECURSIVE InsertByLen(_, _)
InsertByLen(sorted, c) ==
    IF sorted = <<>> THEN <<c>>
    ELSE IF sorted[Len(sorted)].npts <= c.npts THEN Append(sorted, c)
    ELSE Append(InsertByLen(SubSeq(sorted, 1, Len(sorted) - 1), c),
                sorted[Len(sorted)])

RECURSIVE SortByLen(_)
SortByLen(l) ==
    IF l = <<>> THEN <<>>
    ELSE InsertByLen(SortByLen(SubSeq(l, 1, Len(l) - 1)), l[Len(l)])

\* l[-(t):] : a negative start counts from the end, and -0 is 0
SliceFromMinus(l, t) ==
    LET n == Len(l)
        start == IF t > 0 THEN (IF n - t < 0 THEN 0 ELSE n - t)
                 ELSE IF -t > n THEN n ELSE -t
    IN  SubSeq(l, start + 1, n)

\* the polygons calcAutoArea keeps of the contours findContours gave
Retained(line, threshold) ==
    LET Long(c) == c.npts >= MinPoints
        pxpts == SelectSeq(line, Long)
    IN  IF ~threshold.none /\ Len(pxpts) >= threshold.val
        THEN SliceFromMinus(SortByLen(pxpts), threshold.val)
        ELSE pxpts

\* calcAutoArea: colourrange[0] raises TypeError on None
calcAutoArea(img, colourrange, threshold) ==
    IF colourrange.none THEN [raised |-> TRUE, exception |-> "TypeError"]
    ELSE [raised |-> FALSE, exception |-> "",
          colourrange |-> colourrange.val,
          line |-> img.line,
          pxpts |-> Retained(img.line, threshold)]

\* Area.setThreshold(number)
setThreshold ==
    /\ areaObj # NoAreaObj
    /\ \E number \in 0..MaxContours :
          areaObj' = [areaObj EXCEPT !.attrs = @ \cup {"threshold"},
                                     !.threshold = Some(number)]
    /\ UNCHANGED <<coeffs, images, areas, ogrpts, ring, imageList, seq>>
    /\ UNCHANGED <<projvars, envvars, idxvars>>

\* Area.setColourrange(upper, lower)
setColourrange ==
    /\ areaObj # NoAreaObj
    /\ \E r \in {<<150, 50>>} :
          areaObj' = [areaObj EXCEPT !.attrs = @ \cup {"colourrange"},
                                     !.colourrange = Some(r)]
    /\ UNCHANGED <<coeffs, images, areas, ogrpts, ring, imageList, seq>>
    /\ UNCHANGED <<projvars, envvars, idxvars>>

\* the calls of calcAutoArea the loop of calcAutoAreas makes up to the first
\* that raises
RECURSIVE DetectLoop(_, _, _)
DetectLoop(s, imgs, i) ==
    IF i > Len(imgs) THEN <<>>
    ELSE LET out == calcAutoArea(imgs[i], s.colourrange, s.threshold)
         IN  IF out.raised THEN <<out>>
             ELSE <<out>> \o DetectLoop(s, imgs, i + 1)

\* Area.calcAutoAreas(colour) from line 177 on, for an environment that
\* gave its index: defineColourrange is called for its clicks and what it
\* returns is dropped; every image is detected with self._colourrange and
\* self._threshold, attributes that only the setters create; the result
\* names the Area it ran on
DetectAreas(s, imgs, colour) ==
    LET once == ~colour /\ "colourrange" \in s.attrs /\ s.colourrange.none
        calls == DetectLoop(s, imgs, 1)
        last == calls[Len(calls)]
        \* the ranges defineColourrange returned, in the order of its calls
        selected == IF colour
                    THEN [i \in 1..Len(calls) |-> defineColourrange(imgs[i].clicked)]
                    ELSE IF once THEN <<defineColourrange(imgs[1].clicked)>>
                    ELSE <<>>
    IN  IF ~colour /\ "colourrange" \notin s.attrs
        THEN [raised |-> TRUE, exception |-> "AttributeError", calls |-> <<>>,
              selected |-> <<>>, self |-> s, done |-> TRUE, colour |-> colour]
        ELSE IF ~({"colourrange", "threshold"} \subseteq s.attrs)
        THEN [raised |-> TRUE, exception |-> "AttributeError", calls |-> <<>>,
              selected |-> IF colour \/ once
                           THEN <<defineColourrange(imgs[1].clicked)>>
                           ELSE <<>>,
              self |-> s, done |-> TRUE, colour |-> colour]
        ELSE IF last.raised
        THEN [raised |-> TRUE, exception |-> last.exception,
              calls |-> SubSeq(calls, 1, Len(calls) - 1),
              selected |-> selected, self |-> s, done |-> TRUE, colour |-> colour]
        ELSE [raised |-> FALSE, exception |-> "", calls |-> calls,
              selected |-> selected, self |-> s, done |-> TRUE, colour |-> colour]

CallCalcAutoAreas ==
    /\ areaObj # NoAreaObj
    /\ \E colour \in BOOLEAN : areas' = DetectAreas(areaObj, images, colour)
    /\ UNCHANGED <<coeffs, areaObj, images, ogrpts, ring, imageList, seq>>
    /\ UNCHANGED <<projvars, envvars, idxvars>>

IdleEnv ==
    /\ camera = NoCamera
    /\ xyz = <<>>
    /\ pret = NoResult
    /\ Rret = <<>>
    /\ arg = NoCall
    /\ pc = "new"
    /\ exc = ""
    /\ self = Blank
    /\ cv2ret = <<>>
    /\ cv2calls = 0
    /\ log = NoLog
    /\ IdleIndex

InitArea ==
    /\ areaObj \in AreaObjects
    /\ images \in AreaImages
    /\ areas = NoAreas
    /\ coeffs = <<>>
    /\ ogrpts = <<>>
    /\ ring = NoRing
    /\ imageList = NoList
    /\ seq = NoSeq
    /\ IdleEnv

NextArea == setThreshold \/ setColourrange \/ CallCalcAutoAreas

SpecArea == InitArea /\ [][NextArea]_vars

(***************************************************************************)
(* Properties of the automated detection                                   *)
(***************************************************************************)
Ids(l) == {l[k].id : k \in 1..Len(l)}

\* C22: when a threshold is set, every call of calcAutoArea retains at most
\* threshold polygons, none of them with fewer than 40 points, and no
\* detected polygon of at least 40 points that was left out has more points
\* than a retained one; for every threshold, 0 included
C22_AtMostThreshold ==
    (areas.done /\ ~areas.self.threshold.none) =>
        \A k \in 1..Len(areas.calls) :
            LET c == areas.calls[k]
            IN  /\ Len(c.pxpts) <= areas.self.threshold.val
                /\ Ids(c.pxpts) \subseteq Ids(c.line)
                /\ \A j \in 1..Len(c.pxpts) : c.pxpts[j].npts >= MinPoints
                /\ \A j \in 1..Len(c.pxpts), m \in 1..Len(c.line) :
                      (c.line[m].id \notin Ids(c.pxpts)
                         /\ c.line[m].npts >= MinPoints)
                      => c.line[m].npts <= c.pxpts[j].npts


\* the k-th image was detected with the colour range r
DetectedWith(k, r) ==
    /\ ~areas.raised
    /\ k <= Len(areas.calls)
    /\ areas.calls[k].colourrange = r

\* C28: after calcAutoAreas on an Area with a threshold, with colour=False
\* and no colour range set every image was detected with the range the user
\* selected in defineColourrange, and with colour=True image i was detected
\* with the range selected for image i
C28_SelectedRangeUsed ==
    (areas.done /\ "threshold" \in areas.self.attrs) =>
        /\ ((~areas.colour /\ areas.self.colourrange.none) =>
               \A k \in 1..Len(images) :
                   DetectedWith(k, defineColourrange(images[1].clicked)))
        /\ (areas.colour =>
               \A k \in 1..Len(images) :
                   DetectedWith(k, defineColourrange(images[k].clicked)))


(***************************************************************************)
(* Image sequences.  A file path is its folder, the number in its file     *)
(* name and its suffix; Path(p).name is the path without the folder.       *)
(***************************************************************************)
MaxItems == 3      \* most items in the list an ImageSequence is made from

FilePath(dir, num, suffix) == [dir |-> dir, num |-> num, suffix |-> suffix]

\* the files on disk: os.path.isfile and imghdr.what of each path
Files ==
    {[path |-> FilePath(1, 1, ".JPG"), exists |-> TRUE, ftype |-> "jpeg"],
     [path |-> FilePath(2, 2, ".JPG"), exists |-> TRUE, ftype |-> "jpeg"],
     [path |-> FilePath(1, 3, ".txt"), exists |-> TRUE, ftype |-> "None"],
     [path |-> FilePath(1, 9, ".JPG"), exists |-> FALSE, ftype |-> "None"]}

FileAt(path) == CHOOSE f \in Files : f.path = path

\* CamImage._checkImage
checkImage(path) == FileAt(path).exists /\ FileAt(path).ftype # "None"

\* CamImage(imagePath, band, equal)
CamImage(path) ==
    [kind |-> "CamImage", impath |-> path, imageGood |-> checkImage(path)]

\* a file name string in a list
PathItem(path) == [kind |-> "str", impath |-> path, imageGood |-> FALSE]

\* an item that is neither a CamImage nor a string
OtherItem == [kind |-> "int", impath |-> FilePath(0, 0, ""), imageGood |-> FALSE]

Items ==
    {CamImage(FilePath(1, 1, ".JPG")), CamImage(FilePath(2, 2, ".JPG")),
     OtherItem}
    \cup {PathItem(f.path) : f \in Files}

RECURSIVE ItemLists(_)
ItemLists(n) ==
    IF n = 0 THEN {<<>>}
    ELSE ItemLists(n - 1)
         \cup {Append(l, x) : l \in {y \in ItemLists(n - 1) : Len(y) = n - 1},
                              x \in Items}

\* the arguments ImageSequence is constructed with: a list, a folder
\* pattern with the files glob finds for it, something else
ImageLists ==
    {[type |-> "list", items |-> l, found |-> {}] : l \in ItemLists(MaxItems)}
    \cup {[type |-> "str", items |-> <<>>, found |-> {f.path : f \in fs}] :
            fs \in SUBSET {f \in Files : f.exists}}
    \cup {[type |-> "other", items |-> <<>>, found |-> {}]}

\* the order of sorted() on file paths
PathBefore(p, q) == p.dir < q.dir \/ (p.dir = q.dir /\ p.num < q.num)

\* sorted(glob.glob(imageList))
RECURSIVE sorted(_)
sorted(paths) ==
    IF paths = {} THEN <<>>
    ELSE LET first == CHOOSE p \in paths :
                          \A q \in paths \ {p} : PathBefore(p, q)
         IN  <<first>> \o sorted(paths \ {first})

\* ImageSequence._loadImageStringSequence: CamImage(imageStr) raises
\* TypeError in os.path.isfile when the item is no string
RECURSIVE LoadImages(_, _, _)
LoadImages(s, l, i) ==
    IF i > Len(l) THEN s
    ELSE IF l[i].kind # "str" THEN [s EXCEPT !.exception = "TypeError"]
    ELSE LET im == CamImage(l[i].impath)
         IN  LoadImages(IF im.imageGood
                        THEN [s EXCEPT !.imageSet = Append(@, im)]
                        ELSE s,
                        l, i + 1)

loadImageStringSequence(s, l) ==
    LoadImages([s EXCEPT !.attrs = @ \cup {"imageSet"}, !.imageSet = <<>>], l, 1)

\* ImageSequence.__init__(imageList): "for item in list" iterates the type
\* list, which raises TypeError
ImageSequence_init(a) ==
    LET s == [attrs |-> {"band", "equal", "imageList"}, imageList |-> a.items,
              imageSet |-> <<>>, done |-> TRUE, exception |-> ""]
    IN  IF a.type = "list" THEN
            IF a.items = <<>> THEN [s EXCEPT !.exception = "IndexError"]
            ELSE IF a.items[1].kind = "CamImage"
                 THEN [s EXCEPT !.attrs = @ \cup {"imageSet"},
                                !.exception = "TypeError"]
            ELSE IF a.items[1].kind = "str"
                 THEN loadImageStringSequence(s, a.items)
            ELSE s
        ELSE IF a.type = "str" THEN
            LET globbed == sorted(a.found)
                l == [k \in 1..Len(globbed) |-> PathItem(globbed[k])]
            IN  loadImageStringSequence([s EXCEPT !.imageList = l], l)
        ELSE s

\* Path(p).name
Name(path) == <<path.num, path.suffix>>

\* CamImage.getImageName
getImageName(im) == Name(im.impath)

\* ImageSequence.getImageNames
getImageNames(s) == [k \in 1..Len(s.imageList) |-> Name(s.imageList[k].impath)]

\* ImageSequence.getLength
getLength(s) == Len(s.imageSet)

\* ImageSequence.getImageObj(i)
getImageObj(s, i) == s.imageSet[i + 1]

NewImageSequence ==
    /\ ~seq.done
    /\ imageList # NoList
    /\ seq' = ImageSequence_init(imageList)
    /\ UNCHANGED <<coeffs, areaObj, images, areas, ogrpts, ring, imageList>>
    /\ UNCHANGED <<projvars, envvars, idxvars>>

InitImages ==
    /\ imageList \in ImageLists
    /\ seq = NoSeq
    /\ coeffs = <<>>
    /\ areaObj = NoAreaObj
    /\ images = <<>>
    /\ areas = NoAreas
    /\ ogrpts = <<>>
    /\ ring = NoRing
    /\ IdleEnv

NextImages == NewImageSequence

SpecImages == InitImages /\ [][NextImages]_vars

(***************************************************************************)
(* Properties of image sequences                                           *)
(***************************************************************************)
IsCamImage(x) == x.kind = "CamImage"

\* C23: an ImageSequence constructed from a list that starts with a
\* CamImage holds exactly the CamImage items of the list, in list order, and
\* getLength() is their number
C23_CamImagesKept ==
    (seq.done /\ imageList.type = "list" /\ imageList.items # <<>>
        /\ IsCamImage(imageList.items[1])) =>
        /\ seq.exception = ""
        /\ seq.imageSet = SelectSeq(imageList.items, IsCamImage)
        /\ getLength(seq) = Len(SelectSeq(imageList.items, IsCamImage))

\* the sequence was constructed from file paths: a list of file names or a
\* folder pattern
FromPaths ==
    /\ seq.done
    /\ seq.exception = ""
    /\ \/ imageList.type = "str"
       \/ /\ imageList.type = "list"
          /\ \A k \in 1..Len(imageList.items) : imageList.items[k].kind = "str"

\* C29: for a sequence constructed from file paths getImageNames() has
\* getLength() entries and entry i is the file name of getImageObj(i)
C29_NamesMatchImages ==
    FromPaths =>
        /\ Len(getImageNames(seq)) = getLength(seq)
        /\ \A i \in 0..(getLength(seq) - 1) :
              getImageNames(seq)[i + 1] = getImageName(getImageObj(seq, i))


(***************************************************************************)
(* The distortion coefficients in the order of OpenCV                      *)
(***************************************************************************)
\* radial coefficient vectors: k-th entry k or 0
RadVectors == {[k \in 1..RadLen |-> IF k \in on THEN F(k) ELSE F(0)] : on \in SUBSET (1..RadLen)}

TanVectors == {<<F(0), F(0)>>, <<F(7), F(8)>>}

\* CamCalib((intrMat, tanCorr, radCorr)) for every pattern of zero and
\* nonzero coefficients
CoeffCalls ==
    {[class |-> "CamCalib", envFile |-> "", coords |-> <<>>, ypr |-> <<>>,
      DEMdensify |-> 0,
      calib |-> [type |-> "tuple", suffix |-> "",
                 items |-> <<FileItem(Desc(RowLayout(2, 3, 0, 5, 7), t, r))>>,
                 cal |-> NoCal]] : t \in TanVectors, r \in RadVectors}

\* CamCalib.getDistortCoeffsCV2: the length follows radCorr[3] and then
\* radCorr[2] only
DistortCoeffsCV2(s) ==
    IF s.radCorr[4] # F(0)
    THEN SubSeq(s.radCorr, 1, 2) \o s.tanCorr \o SubSeq(s.radCorr, 3, Len(s.radCorr))
    ELSE IF s.radCorr[3] # F(0)
    THEN SubSeq(s.radCorr, 1, 2) \o s.tanCorr \o SubSeq(s.radCorr, 3, 3)
    ELSE SubSeq(s.radCorr, 1, 2) \o s.tanCorr

getDistortCoeffsCV2 ==
    /\ pc = "ok"
    /\ {"radCorr", "tanCorr"} \subseteq self.attrs
    /\ coeffs' = DistortCoeffsCV2(self)
    /\ UNCHANGED <<areaObj, images, areas, ogrpts, ring, imageList, seq>>
    /\ UNCHANGED <<projvars, envvars, idxvars>>

InitCoeffs ==
    /\ arg \in CoeffCalls
    /\ self = CamCalib_init(Blank, arg.calib).self
    /\ pc = "ok"
    /\ exc = ""
    /\ cv2ret = <<>>
    /\ cv2calls = 0
    /\ log = NoLog
    /\ camera = NoCamera
    /\ xyz = <<>>
    /\ pret = NoResult
    /\ Rret = <<>>
    /\ IdleIndex
    /\ IdleTools

NextCoeffs == getDistortCoeffsCV2

SpecCoeffs == InitCoeffs /\ [][NextCoeffs]_vars

(***************************************************************************)
(* Properties of the distortion coefficients                               *)
(***************************************************************************)
\* [k1, k2, p1, p2, k3, k4, k5, k6] of the calibration
AllCoeffs ==
    SubSeq(self.radCorr, 1, 2) \o self.tanCorr \o SubSeq(self.radCorr, 3, 6)

Holds(n) == \A k \in 1..8 : AllCoeffs[k] # F(0) => k <= n

\* C24: getDistortCoeffsCV2 returns the first 4, 5 or 8 of
\* [k1,k2,p1,p2,k3,k4,k5,k6], the shortest of these that contains every
\* nonzero coefficient, so that no nonzero coefficient is left out
C24_NoNonzeroLeftOut ==
    coeffs # <<>> =>
        /\ Len(coeffs) \in {4, 5, 8}
        /\ coeffs = SubSeq(AllCoeffs, 1, Len(coeffs))
        /\ Holds(Len(coeffs))
        /\ \A n \in {4, 5, 8} : Holds(n) => Len(coeffs) <= n


(***************************************************************************)
(* Polygons out of point arrays: getOGRArea                                *)
(***************************************************************************)
MaxRing == 2       \* most points in an array handed to getOGRArea

\* rows of inverse-projected points: each channel defined or NaN
XYZRows ==
    {<<x, y, z>> : x \in {F(1), NaN}, y \in {F(1), NaN}, z \in {F(1), NaN}}
    \cup {<<F(2), F(3), F(4)>>}

\* rows of pixel coordinates
UVRows ==
    {<<u, v>> : u \in {Frac(3, 2), NaN}, v \in {Frac(-5, 2), NaN}}
    \cup {<<Inf, F(1)>>}

RECURSIVE RowLists(_, _)
RowLists(rows, n) ==
    IF n = 0 THEN {<<>>}
    ELSE RowLists(rows, n - 1)
         \cup {Append(l, r) : l \in {y \in RowLists(rows, n - 1) : Len(y) = n - 1},
                              r \in rows}

PointArrays == RowLists(XYZRows, MaxRing) \cup RowLists(UVRows, MaxRing)

\* int(x) of a float: towards zero; ValueError on NaN, OverflowError on an
\* infinity
IntOf(a) ==
    IF IsNaN(a) THEN [raised |-> TRUE, exception |-> "ValueError", val |-> F(0)]
    ELSE IF ~IsFinite(a)
         THEN [raised |-> TRUE, exception |-> "OverflowError", val |-> F(0)]
    ELSE [raised |-> FALSE, exception |-> "",
          val |-> F(Sgn(a[1]) * (Abs(a[1]) \div a[2]))]

\* the loop of getOGRArea from point i on: a point is skipped only when its
\* first coordinate is NaN
RECURSIVE AddPoints(_, _, _)
AddPoints(r, p, i) ==
    IF i > Len(p) THEN r
    ELSE IF IsNaN(p[i][1]) THEN AddPoints(r, p, i + 1)
    ELSE IF Len(p[i]) = 2 THEN
        LET u == IntOf(p[i][1])
            v == IntOf(p[i][2])
        IN  IF u.raised THEN [r EXCEPT !.raised = TRUE, !.exception = u.exception]
            ELSE IF v.raised
                 THEN [r EXCEPT !.raised = TRUE, !.exception = v.exception]
            ELSE AddPoints([r EXCEPT !.points = Append(@, <<u.val, v.val>>)],
                           p, i + 1)
    ELSE AddPoints([r EXCEPT !.points = Append(@, p[i])], p, i + 1)

getOGRArea(p) ==
    AddPoints([raised |-> FALSE, exception |-> "", points |-> <<>>,
               done |-> TRUE], p, 1)

CallGetOGRArea ==
    /\ ~ring.done
    /\ ring' = getOGRArea(ogrpts)
    /\ UNCHANGED <<coeffs, areaObj, images, areas, ogrpts, imageList, seq>>
    /\ UNCHANGED <<projvars, envvars, idxvars>>

InitOGR ==
    /\ ogrpts \in PointArrays
    /\ ring = NoRing
    /\ coeffs = <<>>
    /\ areaObj = NoAreaObj
    /\ images = <<>>
    /\ areas = NoAreas
    /\ imageList = NoList
    /\ seq = NoSeq
    /\ IdleEnv

NextOGR == CallGetOGRArea

SpecOGR == InitOGR /\ [][NextOGR]_vars

(***************************************************************************)
(* Properties of getOGRArea                                                *)
(***************************************************************************)
Defined(row) == \A k \in 1..Len(row) : ~IsNaN(row[k])

IsXYZ(p) == \A k \in 1..Len(p) : Len(p[k]) = 3

\* C25: the ring getOGRArea builds holds no point with a NaN coordinate;
\* of inverse-projected points it holds exactly those defined in every
\* channel, in their input order
C25_NoNaNInRing ==
    ring.done =>
        /\ \A k \in 1..Len(ring.points) : Defined(ring.points[k])
        /\ IsXYZ(ogrpts) =>
              /\ ~ring.raised
              /\ ring.points = SelectSeq(ogrpts, Defined)


(***************************************************************************)
(* Properties of the canonical matrix and of the calibration sources       *)
(***************************************************************************)
\* the matrix given holds fx, fy, cx, cy = q[1], q[2], q[4], q[5] in the row
\* layout or in the transposed layout
GivenWith(q) ==
    /\ SingleSource
    /\ GivenDesc.intr \in {RowLayout(q[1], q[2], q[3], q[4], q[5]),
                           CV2Layout(q[1], q[2], q[3], q[4], q[5])}

\* C26: for an input matrix in the row layout or in the transposed layout
\* the matrix getCamMatrixCV2 returns has fx at (0,0), fy at (1,1), cx at
\* (0,2) and cy at (1,2), also when cx or cy is 0
C26_NoValueLost ==
    cv2calls >= 1 =>
        \A q \in IntrParams :
            GivenWith(q) =>
                /\ cv2ret[1][1] = F(q[1])
                /\ cv2ret[2][2] = F(q[2])
                /\ cv2ret[1][3] = F(q[4])
                /\ cv2ret[2][3] = F(q[5])

\* the object holds a 3 x 3 intrinsic matrix and what the constructor read
\* off it
Accepted ==
    /\ pc = "ok"
    /\ Calibrated
    /\ "intrMatCV2" \in self.attrs
    /\ Len(self.intrMat) = 3
    /\ Len(self.intrMat[1]) = 3

\* C27: on every object with an accepted matrix, before and after calls of
\* getCamMatrixCV2, _focLen and _camCen are the focal lengths (0,0), (1,1)
\* and the principal point (0,2), (1,2) of the matrix getCamMatrixCV2
\* returns
C27_IntrinsicsAgree ==
    Accepted =>
        /\ self.focLen = <<CamMatrixCV2(self).ret[1][1], CamMatrixCV2(self).ret[2][2]>>
        /\ self.camCen = <<CamMatrixCV2(self).ret[1][3], CamMatrixCV2(self).ret[2][3]>>
        /\ cv2calls >= 1 => CamMatrixCV2(self).ret = cv2ret

\* C30: a construction from a list whose first entry ends in neither .txt
\* nor .JPG/.PNG has returned as a failed calibration: no exception of the
\* chessboard calibration and no calibration attribute came out of it
C30_OtherSuffixRejected ==
    (pc # "new" /\ arg.calib.type = "list"
        /\ arg.calib.suffix \notin {".txt", ".JPG", ".PNG"}) =>
        /\ exc # "cv2.error"
        /\ CalibAttrs \cap self.attrs = {}

====
